---- MODULE Spec2Model ----
(***************************************************************************)
(* A model of the KeyFS sqlite storage backend of devpi-server            *)
(* (server/devpi_server/keyfs_sqlite.py): the typed-key index "kv", the   *)
(* append-only "changelog" table, write admission through                 *)
(* "begin immediate", the Writer context manager and the two shared read  *)
(* caches in front of the changelog (specification Spec); the blob table  *)
(* "files" of one connection (specification SpecFiles); the creation of   *)
(* the missing tables and indexes at start (specification SpecSchema).    *)
(* And a model of the mirror cache of extpypi.py on top of it             *)
(* (specifications SpecMirror, SpecBackground, SpecProject, SpecSave and  *)
(* SpecList) and of its two caches in RAM (SpecAdd, SpecCaches).          *)
(***************************************************************************)
EXTENDS Integers, Sequences, FiniteSets, TLC

VARIABLES
    pc,             \* position of each thread (see ThreadStates)
    write_lock,     \* the thread whose sqlite connection holds write admission
    kv,             \* committed table kv: relpath -> <<keyname, serial>>
    changelog,      \* committed table changelog: serial -> changes
    tx_kv,          \* per thread: table kv as its write connection sees it
    changes,        \* per thread: Writer.changes
    commit_serial,  \* per thread: Writer.commit_serial
    notifications,  \* serial -> number of storage._notify_on_commit(serial) calls
    relpath_cache,  \* storage._relpath_cache: <<serial, relpath>> -> <<serial, back_serial, value>>
    changelog_cache, \* storage._changelog_cache, keyed by serial and by <<serial, relpath>>
    files,          \* committed table files: path -> [size, data]
    tx_files,       \* table files as the connection sees it
    files_in_tx,    \* the connection's "begin immediate" transaction is still open
    dirty_files,    \* Connection.dirty_files: path -> TRUE or None
    io_result,      \* the last call on the connection: <<operation, path, outcome, value>>
    sqlite_master,  \* committed catalogue of the database: <<type, name>> -> sql
    tx_sqlite_master, \* the catalogue as the write connection of ensure_tables_exist sees it
    schema,         \* ensure_tables_exist: what _reflect_schema returned
    missing,        \* ensure_tables_exist: the expected objects still to create
    ensure_pc,      \* position in ensure_tables_exist
    ensure_log,     \* per call: catalogue at its start, write transactions begun, statements executed
    is_replica,     \* xom.is_replica()
    offline,        \* PyPIStage.offline
    now,            \* time.time()
    project2time,   \* ProjectUpdateCache._project2time of the project, None without an entry
    cache_projectnames, \* ProjectNamesCache._data
    store,          \* the persisted state of the project at each keyfs serial of this node
    master_ahead,   \* replica: the commits of the primary that are not applied yet
    requests,       \* the upstream requests issued so far
    tasks,          \* the background tasks created so far
    tx,             \* per worker: its keyfs transaction
    call,           \* per worker: its call of get_simplelinks_perstage or has_project_perstage
    background,     \* the fetch a timed-out call left behind and the task that awaits it
    key_sets,       \* the key.set calls of the last call, in their order
    names_timestamp, \* ProjectNamesCache._timestamp
    adding          \* per thread: its call of ProjectNamesCache.add or discard

(***************************************************************************)
(* Bounds of the model and constants of the program.                      *)
(***************************************************************************)
MaxCommits == 2

\* the cache_size BaseStorage is constructed with
cache_size == 2

\* the size from which get_relpath_at counts a result as big
maxlen == 100000

Threads == {"t1", "t2"}

NoThread == "nobody"

TypedKeys == {<<"r1", "k1">>, <<"r2", "k2">>}

Relpaths == {tk[1] : tk \in TypedKeys}

Values == {"a", "XL"}

\* None, the default of record_set's back_serial argument
None == -2

\* record_set is called with back_serial omitted
BackSerialArgs == {None}

ThreadStates ==
    {"idle", "spin", "conn", "open", "written", "committed", "rolledback",
     "hung", "hung_open"}

EmptyCache == [changes |-> [x \in {} |-> 0], results |-> [x \in {} |-> 0]]

EmptyFn == [x \in {} |-> 0]

FnPut(f, k, v) == [x \in DOMAIN f \cup {k} |-> IF x = k THEN v ELSE f[x]]

SetMax(S) == CHOOSE x \in S : \A y \in S : y <= x

(***************************************************************************)
(* BaseConnection: what a connection reads.                                *)
(***************************************************************************)
InWriteTx(t) == pc[t] \in {"open", "written", "hung_open"}

\* table kv as seen through the connection of thread c
ConnKV(c) == IF InWriteTx(c) THEN tx_kv[c] ELSE kv

\* table changelog as seen through the connection of thread c
ConnChangelog(c) ==
    IF pc[c] = "written" THEN FnPut(changelog, commit_serial[c], changes[c])
    ELSE changelog

\* a last_changelog_serial that reads 0 from an empty changelog
db_read_last_changelog_serial_or_0(c) ==
    IF DOMAIN ConnChangelog(c) = {} THEN 0 ELSE SetMax(DOMAIN ConnChangelog(c))

db_read_last_changelog_serial(c) ==
    IF DOMAIN ConnChangelog(c) = {} THEN -1 ELSE SetMax(DOMAIN ConnChangelog(c))

KeyErrorRow == <<"KeyError", -1>>

db_read_typedkey(c, relpath) ==
    IF relpath \in DOMAIN ConnKV(c) THEN ConnKV(c)[relpath] ELSE KeyErrorRow

\* INSERT OR IGNORE: an existing row is kept
db_write_typedkey_or_ignore(table, relpath, name, next_serial) ==
    IF relpath \in DOMAIN table THEN table ELSE FnPut(table, relpath, <<name, next_serial>>)

db_write_typedkey(table, relpath, name, next_serial) ==
    FnPut(table, relpath, <<name, next_serial>>)

(***************************************************************************)
(* BaseStorage.get_connection(write=True): "begin immediate" in a loop.    *)
(***************************************************************************)
db == <<kv, changelog>>

writer == <<tx_kv, changes, commit_serial>>

caches == <<relpath_cache, changelog_cache>>

\* a "begin" that takes no write admission is granted whoever writes
begin_immediate_admits_always(t) == TRUE

\* sqlite grants "begin immediate" when no other connection holds write admission
begin_immediate_admits(t) == write_lock = NoThread

\* the loop's "begin immediate" succeeds: the connection is returned
get_connection_write(t) ==
    /\ pc[t] \in {"idle", "spin"}
    /\ Cardinality(DOMAIN changelog) < MaxCommits
    /\ begin_immediate_admits(t)
    /\ pc' = [pc EXCEPT ![t] = "conn"]
    /\ write_lock' = t
    /\ UNCHANGED <<db, writer, notifications, caches>>

\* sqlite3.OperationalError: sleep and try again
get_connection_busy(t) ==
    /\ pc[t] \in {"idle", "spin"}
    /\ Cardinality(DOMAIN changelog) < MaxCommits
    /\ ~begin_immediate_admits(t)
    /\ pc' = [pc EXCEPT ![t] = "spin"]
    /\ UNCHANGED <<write_lock, db, writer, notifications, caches>>

\* a loop that never looks at the time it has waited
get_connection_never_raises(t) ==
    /\ FALSE
    /\ UNCHANGED <<pc, write_lock, db, writer, notifications, caches>>

\* sqlite3.OperationalError after more than 30 seconds: the error is raised
get_connection_timeout(t) ==
    /\ pc[t] = "spin"
    /\ ~begin_immediate_admits(t)
    /\ pc' = [pc EXCEPT ![t] = "idle"]
    /\ UNCHANGED <<write_lock, db, writer, notifications, caches>>

\* closing a write connection that has no Writer: sqlite rolls back
close(t) ==
    /\ pc[t] = "conn"
    /\ pc' = [pc EXCEPT ![t] = "idle"]
    /\ write_lock' = IF write_lock = t THEN NoThread ELSE write_lock
    /\ UNCHANGED <<db, writer, notifications, caches>>

(***************************************************************************)
(* Writer                                                                  *)
(***************************************************************************)
Writer_commit_serial(t) == db_read_last_changelog_serial(t) + 1

\* Connection.write_transaction: Writer.__init__
write_transaction(t) ==
    /\ pc[t] = "conn"
    /\ pc' = [pc EXCEPT ![t] = "open"]
    /\ changes' = [changes EXCEPT ![t] = EmptyFn]
    /\ commit_serial' = [commit_serial EXCEPT ![t] = Writer_commit_serial(t)]
    /\ tx_kv' = [tx_kv EXCEPT ![t] = kv]
    /\ UNCHANGED <<write_lock, db, notifications, caches>>

\* the back_serial a record_set call stores: looked up in the index when the
\* argument is None, -1 when the index has no row for the relpath
record_set_back_serial(t, relpath, back_serial) ==
    IF back_serial = None
    THEN db_read_typedkey(t, relpath)[2]
    ELSE back_serial

\* a record_set that buffers the change and leaves the index alone
record_set_without_index(t, typedkey, value, back_serial) ==
    /\ pc[t] = "open"
    /\ changes' = [changes EXCEPT ![t] =
                    FnPut(@, typedkey[1],
                          <<typedkey[2],
                            record_set_back_serial(t, typedkey[1], back_serial),
                            value>>)]
    /\ UNCHANGED <<pc, write_lock, db, tx_kv, commit_serial, notifications, caches>>

record_set(t, typedkey, value, back_serial) ==
    /\ pc[t] = "open"
    /\ tx_kv' = [tx_kv EXCEPT ![t] =
                    db_write_typedkey(@, typedkey[1], typedkey[2], commit_serial[t])]
    /\ changes' = [changes EXCEPT ![t] =
                    FnPut(@, typedkey[1],
                          <<typedkey[2],
                            record_set_back_serial(t, typedkey[1], back_serial),
                            value>>)]
    /\ UNCHANGED <<pc, write_lock, db, commit_serial, notifications, caches>>

\* an __exit__ that notifies as soon as the changelog entry is written
exit_write_changelog_entry_notifies(t) ==
    /\ pc[t] = "open"
    /\ commit_serial[t] \notin DOMAIN changelog
    /\ pc' = [pc EXCEPT ![t] = "written"]
    /\ notifications' = FnPut(notifications, commit_serial[t], 1)
    /\ UNCHANGED <<write_lock, db, writer, caches>>

\* Writer.__exit__ without an exception, first statement: write_changelog_entry
exit_write_changelog_entry(t) ==
    /\ pc[t] = "open"
    /\ commit_serial[t] \notin DOMAIN changelog
    /\ pc' = [pc EXCEPT ![t] = "written"]
    /\ UNCHANGED <<write_lock, db, writer, notifications, caches>>

\* Writer.__exit__ without an exception, second statement: conn.commit()
exit_commit(t) ==
    /\ pc[t] = "written"
    /\ pc' = [pc EXCEPT ![t] = "committed"]
    /\ kv' = ConnKV(t)
    /\ changelog' = ConnChangelog(t)
    /\ write_lock' = IF write_lock = t THEN NoThread ELSE write_lock
    /\ tx_kv' = [tx_kv EXCEPT ![t] = EmptyFn]
    /\ changes' = [changes EXCEPT ![t] = EmptyFn]
    /\ UNCHANGED <<commit_serial, notifications, caches>>

_notify_on_commit(calls, serial) ==
    FnPut(calls, serial, IF serial \in DOMAIN calls THEN calls[serial] + 1 ELSE 1)

\* Writer.__exit__ without an exception, last statement: storage._notify_on_commit
exit_notify(t) ==
    /\ pc[t] = "committed"
    /\ pc' = [pc EXCEPT ![t] = "idle"]
    /\ notifications' = _notify_on_commit(notifications, commit_serial[t])
    /\ commit_serial' = [commit_serial EXCEPT ![t] = -1]
    /\ UNCHANGED <<write_lock, db, tx_kv, changes, caches>>

\* an error exit that commits the connection instead of rolling it back
exit_rollback_commits(t) ==
    /\ pc[t] = "open"
    /\ pc' = [pc EXCEPT ![t] = "rolledback"]
    /\ write_lock' = IF write_lock = t THEN NoThread ELSE write_lock
    /\ kv' = ConnKV(t)
    /\ tx_kv' = [tx_kv EXCEPT ![t] = EmptyFn]
    /\ changes' = [changes EXCEPT ![t] = EmptyFn]
    /\ UNCHANGED <<changelog, commit_serial, notifications, caches>>

\* Writer.__exit__ with an exception: conn.rollback()
exit_rollback(t) ==
    /\ pc[t] = "open"
    /\ pc' = [pc EXCEPT ![t] = "rolledback"]
    /\ write_lock' = IF write_lock = t THEN NoThread ELSE write_lock
    /\ tx_kv' = [tx_kv EXCEPT ![t] = EmptyFn]
    /\ changes' = [changes EXCEPT ![t] = EmptyFn]
    /\ UNCHANGED <<db, commit_serial, notifications, caches>>

\* Writer.__exit__ with an exception, last statement; the exception propagates
exit_raise(t) ==
    /\ pc[t] = "rolledback"
    /\ pc' = [pc EXCEPT ![t] = "idle"]
    /\ commit_serial' = [commit_serial EXCEPT ![t] = -1]
    /\ UNCHANGED <<write_lock, db, tx_kv, changes, notifications, caches>>

(***************************************************************************)
(* The read caches: two LRUCache objects shared by all connections.  The   *)
(* entry a full cache drops for a new key is left open: any entry may go.  *)
(***************************************************************************)
Max(a, b) == IF a >= b THEN a ELSE b

changelog_cache_size == Max(1, cache_size \div 20)

relpath_cache_size == Max(1, cache_size - changelog_cache_size)

Restrict(f, S) == [x \in S |-> f[x]]

\* the key sets a cache of the given size may be left with to take in key
LRUCache_room(keys, size, key) ==
    IF key \in keys \/ Cardinality(keys) < size
    THEN {keys}
    ELSE {keys \ {victim} : victim \in keys}

relpath_cache_put(cache, key, val) ==
    {FnPut(Restrict(cache, K), key, val) :
        K \in LRUCache_room(DOMAIN cache, relpath_cache_size, key)}

\* the keys of the changelog cache: <<"changes", serial, "">> for a whole
\* changelog entry, <<"result", serial, relpath>> for one resolved value
changelog_cache_keys(cache) ==
    {<<"changes", s, "">> : s \in DOMAIN cache.changes}
        \cup {<<"result", k[1], k[2]>> : k \in DOMAIN cache.results}

changelog_cache_restrict(cache, K) ==
    [changes |-> Restrict(cache.changes,
                          {s \in DOMAIN cache.changes : <<"changes", s, "">> \in K}),
     results |-> Restrict(cache.results,
                          {k \in DOMAIN cache.results : <<"result", k[1], k[2]>> \in K})]

changelog_cache_put(cache, key, val) ==
    {IF key[1] = "changes"
        THEN [changelog_cache_restrict(cache, K) EXCEPT
                !.changes = FnPut(@, key[2], val)]
        ELSE [changelog_cache_restrict(cache, K) EXCEPT
                !.results = FnPut(@, <<key[2], key[3]>>, val)] :
        K \in LRUCache_room(changelog_cache_keys(cache), changelog_cache_size, key)}

\* gettotalsizeof(result, maxlen=100000) is None: the result is big
SizeOf(value) == IF value = "XL" THEN maxlen + 1 ELSE 1

gettotalsizeof_is_None(result) == SizeOf(result[3]) > maxlen

(***************************************************************************)
(* BaseConnection.get_changes on the connection of thread c, with the      *)
(* changelog cache in state cache.                                         *)
(***************************************************************************)
\* a SELECT without its WHERE clause: a row whenever the table has one
get_raw_changelog_entry_is_None_when_empty(c, serial) == DOMAIN ConnChangelog(c) = {}

get_raw_changelog_entry_is_None(c, serial) == serial \notin DOMAIN ConnChangelog(c)

\* loads(None) raises: nothing is returned and nothing is cached
get_changes_fails(c, serial, cache) ==
    /\ serial \notin DOMAIN cache.changes
    /\ get_raw_changelog_entry_is_None(c, serial)

get_changes_value(c, serial, cache) ==
    IF serial \in DOMAIN cache.changes
    THEN cache.changes[serial]
    ELSE ConnChangelog(c)[serial]

\* the states the changelog cache may be in after get_changes(serial)
get_changes_cache(c, serial, cache) ==
    IF serial \in DOMAIN cache.changes \/ get_changes_fails(c, serial, cache)
    THEN {cache}
    ELSE changelog_cache_put(cache, <<"changes", serial, "">>, ConnChangelog(c)[serial])

\* get_changes(serial): the set of <<status, changes, changelog cache>> it may
\* end with
get_changes_outcomes(c, serial, cache) ==
    IF get_changes_fails(c, serial, cache)
    THEN {<<"Error", EmptyFn, cache>>}
    ELSE {<<"ok", get_changes_value(c, serial, cache), cache2>> :
            cache2 \in get_changes_cache(c, serial, cache)}

(***************************************************************************)
(* keyfs.get_relpath_at, the walk along the back_serial pointers that      *)
(* BaseConnection._get_relpath_at is bound to.  A result is                *)
(* <<status, serial, back_serial, value>>; the walk yields the set of      *)
(* <<result, changelog cache>> pairs it may end with.                      *)
(***************************************************************************)
Found(serial, back_serial, value) == <<"ok", serial, back_serial, value>>

KeyErrorResult == <<"KeyError", -1, -1, "">>

ErrorResult == <<"Error", -1, -1, "">>

\* the walk never returns: a back_serial that does not point backward
HangResult == <<"Hang", -1, -1, "">>

RECURSIVE iter_serial_and_value_backwards(_, _, _, _, _)
iter_serial_and_value_backwards(c, relpath, last_serial, serial, cache) ==
    IF last_serial < 0 THEN {<<KeyErrorResult, cache>>}
    ELSE IF get_changes_fails(c, last_serial, cache) THEN {<<ErrorResult, cache>>}
    ELSE LET chg == get_changes_value(c, last_serial, cache)
         IN UNION {
              IF relpath \notin DOMAIN chg THEN {<<ErrorResult, cache2>>}
              ELSE IF last_serial <= serial
                   THEN {<<Found(last_serial, chg[relpath][2], chg[relpath][3]), cache2>>}
              ELSE IF chg[relpath][2] >= last_serial THEN {<<HangResult, cache2>>}
              ELSE iter_serial_and_value_backwards(
                        c, relpath, chg[relpath][2], serial, cache2) :
              cache2 \in get_changes_cache(c, last_serial, cache)}

keyfs_get_relpath_at(c, relpath, serial, cache) ==
    IF db_read_typedkey(c, relpath) = KeyErrorRow
    THEN {<<KeyErrorResult, cache>>}
    ELSE iter_serial_and_value_backwards(
            c, relpath, db_read_typedkey(c, relpath)[2], serial, cache)

(***************************************************************************)
(* BaseConnection.get_relpath_at: the set of                               *)
(* <<result, relpath cache, changelog cache>> it may end with.             *)
(***************************************************************************)
\* lines 150-156: the result goes into one of the two caches
get_relpath_at_store(relpath, serial, result, rcache, ccache) ==
    IF gettotalsizeof_is_None(<<result[2], result[3], result[4]>>)
    THEN {<<result, rcache, cc>> :
            cc \in changelog_cache_put(ccache, <<"result", serial, relpath>>,
                                       <<result[2], result[3], result[4]>>)}
    ELSE {<<result, rc, ccache>> :
            rc \in relpath_cache_put(rcache, <<serial, relpath>>,
                                     <<result[2], result[3], result[4]>>)}

get_relpath_at_outcomes(c, relpath, serial, rcache, ccache) ==
    IF <<serial, relpath>> \in DOMAIN rcache
    THEN LET r == rcache[<<serial, relpath>>]
         IN get_relpath_at_store(relpath, serial, Found(r[1], r[2], r[3]), rcache, ccache)
    ELSE IF <<serial, relpath>> \in DOMAIN ccache.results
    THEN LET r == ccache.results[<<serial, relpath>>]
         IN get_relpath_at_store(relpath, serial, Found(r[1], r[2], r[3]), rcache, ccache)
    ELSE IF serial \in DOMAIN ccache.changes /\ relpath \in DOMAIN ccache.changes[serial]
    THEN LET tup == ccache.changes[serial][relpath]
         IN get_relpath_at_store(relpath, serial, Found(serial, tup[2], tup[3]),
                                 rcache, ccache)
    ELSE UNION {
            IF o[1][1] = "ok"
            THEN get_relpath_at_store(relpath, serial, o[1], rcache, o[2])
            ELSE {<<o[1], rcache, o[2]>>} :
            o \in keyfs_get_relpath_at(c, relpath, serial, ccache)}

\* what get_relpath_at returns (the caches decide nothing about it but a hit)
get_relpath_at_result(c, relpath, serial) ==
    (CHOOSE o \in get_relpath_at_outcomes(c, relpath, serial,
                                          relpath_cache, changelog_cache) : TRUE)[1]

\* BaseStorage.get_connection(write=False): no statement is executed on the
\* new connection, whoever holds write admission
get_connection_read(c) == pc[c] = "idle"

\* a thread reads on its write connection inside a Writer, else on a
\* connection it gets with write=False
CanRead(c) == get_connection_read(c) \/ pc[c] = "open"

ReadSerials == 0 .. MaxCommits - 1

get_relpath_at(c, relpath, serial) ==
    /\ CanRead(c)
    /\ \E o \in get_relpath_at_outcomes(c, relpath, serial, relpath_cache, changelog_cache) :
        /\ relpath_cache' = o[2]
        /\ changelog_cache' = o[3]
        /\ pc' = IF o[1] = HangResult
                 THEN [pc EXCEPT ![c] = IF pc[c] = "open" THEN "hung_open" ELSE "hung"]
                 ELSE pc
    /\ UNCHANGED <<write_lock, db, writer, notifications>>

ChangesSerials == 0 .. MaxCommits

get_changes(c, serial) ==
    /\ CanRead(c)
    /\ \E o \in get_changes_outcomes(c, serial, changelog_cache) :
        changelog_cache' = o[3]
    /\ UNCHANGED <<pc, write_lock, db, writer, notifications, relpath_cache>>

(***************************************************************************)
(* BaseConnection.iter_relpaths_at: the set of                             *)
(* <<status, the RelpathInfo yielded, changelog cache>> it may end with.   *)
(***************************************************************************)
KeyNames == {tk[2] : tk \in TypedKeys}

iter_relpaths_at_rows(c, keynames, serial) ==
    {relpath \in DOMAIN ConnKV(c) :
        /\ ConnKV(c)[relpath][2] = serial
        /\ ConnKV(c)[relpath][1] \in keynames}

RelpathInfo(relpath, keyname, serial, back_serial, value) ==
    [relpath |-> relpath, keyname |-> keyname, serial |-> serial,
     back_serial |-> back_serial, value |-> value]

RECURSIVE iter_relpaths_at_from(_, _, _, _, _)
iter_relpaths_at_from(c, keynames, serial, yielded, cache) ==
    IF serial < 0 THEN {<<"ok", yielded, cache>>}
    ELSE LET rows == iter_relpaths_at_rows(c, keynames, serial)
         IN IF rows = {}
            THEN iter_relpaths_at_from(c, keynames, serial - 1, yielded, cache)
            ELSE IF get_changes_fails(c, serial, cache)
            THEN {<<"Error", yielded, cache>>}
            ELSE LET chg == get_changes_value(c, serial, cache)
                 IN IF \E relpath \in rows : relpath \notin DOMAIN chg
                    THEN {<<"Error", yielded, cache2>> :
                            cache2 \in get_changes_cache(c, serial, cache)}
                    ELSE UNION {
                        iter_relpaths_at_from(
                            c, keynames, serial - 1,
                            yielded \cup {RelpathInfo(relpath, chg[relpath][1], serial,
                                                      chg[relpath][2], chg[relpath][3]) :
                                            relpath \in rows},
                            cache2) :
                        cache2 \in get_changes_cache(c, serial, cache)}

iter_relpaths_at_outcomes(c, keynames, at_serial, cache) ==
    iter_relpaths_at_from(c, keynames, at_serial, {}, cache)

iter_relpaths_at_result(c, keynames, at_serial) ==
    LET o == CHOOSE o \in iter_relpaths_at_outcomes(c, keynames, at_serial,
                                                    changelog_cache) : TRUE
    IN <<o[1], o[2]>>

iter_relpaths_at(c, keynames, at_serial) ==
    /\ CanRead(c)
    /\ \E o \in iter_relpaths_at_outcomes(c, keynames, at_serial, changelog_cache) :
        changelog_cache' = o[3]
    /\ UNCHANGED <<pc, write_lock, db, writer, notifications, relpath_cache>>

(***************************************************************************)
(* Connection.io_file_*: the blob table "files" on one write connection.   *)
(* A path is the sequence of its parts, "/" first when it is absolute and  *)
(* "-tmp" last when it ends so.  The connection runs with                  *)
(* isolation_level=None: once its "begin immediate" transaction is         *)
(* committed or rolled back, each statement commits by itself.             *)
(***************************************************************************)
Paths == {<<"f1">>, <<"f2">>, <<"/", "f1">>, <<"f1", "-tmp">>}

Contents == {<<7>>, <<7, 8>>}

\* a path test that takes every path for relative
isabs_never(path) == FALSE

\* os.path.isabs
isabs(path) == path[1] = "/"

endswith_tmp(path) == path[Len(path)] = "-tmp"

\* what a statement that writes table files leaves committed
files_after_statement(table) == IF files_in_tx THEN files ELSE table

io_file_exists(path) ==
    /\ io_result' =
        IF isabs(path) THEN <<"io_file_exists", path, "AssertionError", None>>
        ELSE <<"io_file_exists", path, "ok", path \in DOMAIN tx_files>>
    /\ UNCHANGED <<files, tx_files, files_in_tx, dirty_files>>

io_file_set(path, content) ==
    IF isabs(path) \/ endswith_tmp(path)
    THEN /\ io_result' = <<"io_file_set", path, "AssertionError", None>>
         /\ UNCHANGED <<files, tx_files, files_in_tx, dirty_files>>
    ELSE /\ tx_files' = FnPut(tx_files, path, [size |-> Len(content), data |-> content])
         /\ files' = files_after_statement(tx_files')
         /\ dirty_files' = FnPut(dirty_files, path, TRUE)
         /\ io_result' = <<"io_file_set", path, "ok", None>>
         /\ UNCHANGED files_in_tx

io_file_get(path) ==
    /\ io_result' =
        IF isabs(path) THEN <<"io_file_get", path, "AssertionError", None>>
        ELSE IF path \notin DOMAIN tx_files THEN <<"io_file_get", path, "IOError", None>>
        ELSE <<"io_file_get", path, "ok", tx_files[path].data>>
    /\ UNCHANGED <<files, tx_files, files_in_tx, dirty_files>>

io_file_size(path) ==
    /\ io_result' =
        IF isabs(path) THEN <<"io_file_size", path, "AssertionError", None>>
        ELSE IF path \notin DOMAIN tx_files THEN <<"io_file_size", path, "ok", None>>
        ELSE <<"io_file_size", path, "ok", tx_files[path].size>>
    /\ UNCHANGED <<files, tx_files, files_in_tx, dirty_files>>

io_file_delete(path) ==
    IF isabs(path)
    THEN /\ io_result' = <<"io_file_delete", path, "AssertionError", None>>
         /\ UNCHANGED <<files, tx_files, files_in_tx, dirty_files>>
    ELSE /\ tx_files' = Restrict(tx_files, DOMAIN tx_files \ {path})
         /\ files' = files_after_statement(tx_files')
         /\ dirty_files' = FnPut(dirty_files, path, None)
         /\ io_result' = <<"io_file_delete", path, "ok", None>>
         /\ UNCHANGED files_in_tx

\* Connection.commit_files_without_increasing_serial: self.commit()
commit_files_without_increasing_serial ==
    /\ files' = tx_files
    /\ files_in_tx' = FALSE
    /\ io_result' = <<"commit_files_without_increasing_serial", <<>>, "ok", None>>
    /\ UNCHANGED <<tx_files, dirty_files>>

\* BaseConnection.rollback
rollback ==
    /\ tx_files' = files
    /\ files_in_tx' = FALSE
    /\ io_result' = <<"rollback", <<>>, "ok", None>>
    /\ UNCHANGED <<files, dirty_files>>

(***************************************************************************)
(* BaseStorage._reflect_schema and ensure_tables_exist.  The catalogue     *)
(* sqlite_master maps <<type, name>> to the sql the object was made with.  *)
(***************************************************************************)
\* Storage.expected_schema
expected_schema ==
    [o \in {<<"index", "kv_serial_idx">>, <<"table", "changelog">>,
            <<"table", "kv">>, <<"table", "files">>} |->
        <<"CREATE", o[1], o[2]>>]

\* the order in which ensure_tables_exist walks the kinds, and
\* expected_schema the names of a kind
creation_order ==
    <<<<"table", "changelog">>, <<"table", "kv">>, <<"table", "files">>,
      <<"index", "kv_serial_idx">>>>

\* the sql of an object that an earlier release made
OldSql(o) == <<"CREATE", o[1], o[2], "old release">>

\* an object of the catalogue that the storage does not know
LegacyObject == <<"table", "legacy">>

\* the catalogues a database file can hold when the storage is constructed:
\* any of the expected objects, made by this release or by an earlier one,
\* an index only on a table that exists
InitialCatalogs ==
    {f \in UNION {[D -> {"this", "old"}] :
                    D \in SUBSET (DOMAIN expected_schema \cup {LegacyObject})} :
        /\ <<"index", "kv_serial_idx">> \in DOMAIN f => <<"table", "kv">> \in DOMAIN f
        /\ LegacyObject \in DOMAIN f => f[LegacyObject] = "old"}

CatalogOf(f) ==
    [o \in DOMAIN f |-> IF f[o] = "this" THEN expected_schema[o] ELSE OldSql(o)]

MaxCalls == 2

\* a computation of missing that looks at the tables only
ensure_missing_tables_only(reflected) ==
    {o \in DOMAIN expected_schema : o[1] = "table" /\ o \notin DOMAIN reflected}

\* lines 342-346: the expected objects whose name the reflected schema lacks
ensure_missing(reflected) ==
    {o \in DOMAIN expected_schema : o \notin DOMAIN reflected}

\* _reflect_schema on a read connection, then the computation of missing;
\* with nothing missing the call returns
ensure_reflect ==
    /\ ensure_pc = "start"
    /\ schema' = sqlite_master
    /\ missing' = ensure_missing(sqlite_master)
    /\ ensure_pc' = IF ensure_missing(sqlite_master) = {} THEN "done" ELSE "begin"
    /\ UNCHANGED <<sqlite_master, tx_sqlite_master, ensure_log>>

\* get_connection(write=True): "begin immediate"
ensure_begin ==
    /\ ensure_pc = "begin"
    /\ ensure_pc' = "create"
    /\ tx_sqlite_master' = sqlite_master
    /\ ensure_log' = [ensure_log EXCEPT !.begun = @ + 1]
    /\ UNCHANGED <<sqlite_master, schema, missing>>

\* the next object of missing, in the order of the two loops
next_missing ==
    creation_order[CHOOSE i \in 1 .. Len(creation_order) :
        /\ creation_order[i] \in missing
        /\ \A j \in 1 .. i - 1 : creation_order[j] \notin missing]

\* c.execute(q) for the next missing object; sqlite refuses to create an
\* object that exists, and the connection is closed without a commit
ensure_create ==
    /\ ensure_pc = "create"
    /\ missing # {}
    /\ IF next_missing \in DOMAIN tx_sqlite_master
       THEN /\ ensure_pc' = "failed"
            /\ tx_sqlite_master' = sqlite_master
            /\ UNCHANGED <<missing, ensure_log>>
       ELSE /\ tx_sqlite_master' =
                    FnPut(tx_sqlite_master, next_missing, expected_schema[next_missing])
            /\ missing' = missing \ {next_missing}
            /\ ensure_log' = [ensure_log EXCEPT !.executed = Append(@, next_missing)]
            /\ UNCHANGED ensure_pc
    /\ UNCHANGED <<sqlite_master, schema>>

\* conn.commit()
ensure_commit ==
    /\ ensure_pc = "create"
    /\ missing = {}
    /\ sqlite_master' = tx_sqlite_master
    /\ ensure_pc' = "done"
    /\ UNCHANGED <<tx_sqlite_master, schema, missing, ensure_log>>

\* ensure_tables_exist is called again (a storage is constructed on the same
\* database file)
ensure_tables_exist ==
    /\ ensure_pc = "done"
    /\ ensure_log.calls < MaxCalls
    /\ ensure_pc' = "start"
    /\ ensure_log' = [initial |-> sqlite_master, begun |-> 0, executed |-> <<>>,
                      calls |-> ensure_log.calls + 1]
    /\ UNCHANGED <<sqlite_master, tx_sqlite_master, schema, missing>>

(***************************************************************************)
(* extpypi.PyPIStage: the cached simple links of one project of a mirror   *)
(* index, on a primary or on a replica.  The persisted state of the        *)
(* project is kept per keyfs serial (store[s] is what a transaction at     *)
(* serial s reads); a worker reads and writes it through its transaction.  *)
(* The keyfs transaction (snapshot read at at_serial, restart, commit with *)
(* its on_commit_success callbacks) is the one the specification           *)
(* describes.                                                              *)
(***************************************************************************)
Workers == {"w1"}

\* ixconfig mirror_cache_expiry, in ticks of the clock
cache_expiry == 2

MaxTime == 3

MaxRequests == 2

MaxStore == 3

MaxTasks == 1

\* links is None
NoLinks == <<"None">>

\* the key_hrefs lists an upstream page can give
LinkLists == {<<"a">>, <<"a", "b">>, <<"b", "a">>}

\* what the X-PYPI-LAST-SERIAL header of a response can hold
SerialHeaders == {"missing", "junk", "5", "7"}

\* int(response.headers.get("X-PYPI-LAST-SERIAL")), -1 when that raises
header_serial(header) ==
    IF header = "5" THEN 5 ELSE IF header = "7" THEN 7 ELSE -1

\* set(links)
LinkSet(links) == {links[i] : i \in DOMAIN links}

\* key_projsimplelinks(project).get() of a key that was never set
NoRecord == [serial |-> -1, links |-> NoLinks]

Records == [serial : {-1, 5, 7}, links : LinkLists]

\* key_projsimplelinks(project).get() after clear_simplelinks_cache: the key
\* exists and holds {}
ClearedRecord == [serial |-> -1, links |-> <<"{}">>]

\* the persisted state of the project: its link record rec, the name-set
\* key_projects, the file entries that maplink has made, those of them
\* that hold a file (entry.file_exists()), and the key MIRRORNAMESINIT of
\* the index
EmptyState ==
    [rec |-> NoRecord, names |-> {}, entries |-> {}, files |-> {}, mirrornamesinit |-> 0]

StateOf(rec) ==
    [rec |-> rec, names |-> {"pkg"}, entries |-> LinkSet(rec.links), files |-> {},
     mirrornamesinit |-> 0]

\* the pending changes of a transaction that has written nothing
NoChange ==
    [rec |-> NoRecord, names |-> {"unchanged"}, entries |-> {}, files |-> {},
     mirrornamesinit |-> 0]

NoInfo == [serial |-> -1, links |-> NoLinks, devpi_serial |-> 0]

NoResult == <<"none", NoLinks>>

UpstreamError == <<"UpstreamError", NoLinks>>

UpstreamNotFoundError == <<"UpstreamNotFoundError", NoLinks>>

Returned(links) == <<"return", links>>

NoTx == [at_serial |-> 0, write |-> FALSE, pending |-> NoChange, on_commit |-> FALSE]

IdleCall == [pc |-> "notx", op |-> "none", links |-> NoLinks, cache_serial |-> -1,
             serial |-> None, devpi_serial |-> 0, result |-> NoResult]

\* no fetch is left behind and no task awaits one
NoBackground == [fetch |-> "none", cache_serial |-> -1, info |-> NoInfo, task |-> "none"]

\* the current keyfs serial of this node
keyfs_serial == Len(store)

\* what the transaction of worker w reads
tx_view(w) ==
    IF tx[w].pending # NoChange THEN tx[w].pending ELSE store[tx[w].at_serial]

(***************************************************************************)
(* ProjectUpdateCache, for the one project                                 *)
(***************************************************************************)
\* an expiry test that counts the last tick of the window as expired
is_expired_early(t, expiry_time) ==
    IF t # None THEN (now - t) >= expiry_time - 1 ELSE TRUE

\* ProjectUpdateCache.is_expired
is_expired(t, expiry_time) ==
    IF t # None THEN (now - t) >= expiry_time ELSE TRUE

\* ProjectUpdateCache.refresh
refresh == now

(***************************************************************************)
(* The keyfs transaction of a worker                                       *)
(***************************************************************************)
mirror_state == <<project2time, cache_projectnames, store, master_ahead>>

begin_transaction(w, write) ==
    /\ call[w].pc = "notx"
    /\ write => ~is_replica
    /\ tx' = [tx EXCEPT ![w] = [at_serial |-> keyfs_serial, write |-> write,
                                pending |-> NoChange, on_commit |-> FALSE]]
    /\ call' = [call EXCEPT ![w].pc = "intx"]
    /\ UNCHANGED <<is_replica, offline, now, requests, tasks, background, mirror_state>>

\* the callback _save_cache_links registers with on_commit_success
on_commit(w) ==
    /\ project2time' = IF tx[w].on_commit THEN refresh ELSE project2time
    /\ cache_projectnames' =
        IF tx[w].on_commit THEN cache_projectnames \cup {"pkg"} ELSE cache_projectnames

\* the transaction ends without an error: its changes get the next serial
commit_transaction(w) ==
    /\ call[w].pc = "intx"
    /\ tx[w].pending # NoChange => Len(store) < MaxStore
    /\ store' = IF tx[w].pending # NoChange THEN Append(store, tx[w].pending) ELSE store
    /\ on_commit(w)
    /\ tx' = [tx EXCEPT ![w] = NoTx]
    /\ call' = [call EXCEPT ![w].pc = "notx"]
    /\ UNCHANGED <<is_replica, offline, now, requests, tasks, background, master_ahead>>

\* the transaction ends with an error: nothing is written, no callback runs
rollback_transaction(w) ==
    /\ call[w].pc = "intx"
    /\ tx' = [tx EXCEPT ![w] = NoTx]
    /\ call' = [call EXCEPT ![w].pc = "notx"]
    /\ UNCHANGED <<is_replica, offline, now, requests, tasks, background, mirror_state>>

\* keyfs.restart_as_write_transaction: a write transaction at the current serial
restart_as_write_transaction(t) ==
    [at_serial |-> keyfs_serial, write |-> TRUE, pending |-> NoChange,
     on_commit |-> t.on_commit]

\* a restart that keeps the serial the transaction reads at
restart_read_transaction_at_old_serial(t) ==
    [at_serial |-> t.at_serial, write |-> FALSE, pending |-> NoChange,
     on_commit |-> t.on_commit]

\* keyfs.restart_read_transaction: a read transaction at the current serial
restart_read_transaction(t) ==
    [at_serial |-> keyfs_serial, write |-> FALSE, pending |-> NoChange,
     on_commit |-> t.on_commit]

(***************************************************************************)
(* PyPIStage                                                               *)
(***************************************************************************)
\* is_project_cached: key_projsimplelinks(project).exists()
is_project_cached(view) == view.rec # NoRecord

\* _is_file_cached: the entry of the link holds a file
_is_file_cached(view, link) == link \in view.entries /\ link \in view.files

\* list(filter(self._is_file_cached, links_with_data))
filter_is_file_cached(view, links) ==
    SelectSeq(links, LAMBDA link : _is_file_cached(view, link))

\* _load_cache_links: <<is_expired, links, cache_serial>>
_load_cache_links(view) ==
    IF view.rec \notin {NoRecord, ClearedRecord}
    THEN <<is_expired(project2time, cache_expiry),
           IF offline THEN filter_is_file_cached(view, view.rec.links)
           ELSE view.rec.links,
           view.rec.serial>>
    ELSE <<TRUE, NoLinks, -1>>

\* a call that never answers from the record
get_simplelinks_perstage_uncached(view) == NoResult

\* lines 554-570: what get_simplelinks_perstage ends with before it asks
\* upstream, NoResult when it goes on to ask
get_simplelinks_perstage_cached(view) ==
    LET loaded == _load_cache_links(view)
    IN  IF offline /\ loaded[2] = NoLinks THEN UpstreamError
        ELSE IF offline \/ ~loaded[1] THEN Returned(loaded[2])
        ELSE IF loaded[2] = NoLinks /\ ~is_expired(project2time, cache_expiry)
             THEN UpstreamNotFoundError
        ELSE NoResult

\* has_project_perstage: what it makes of get_simplelinks_perstage's end
has_project_result(result) ==
    IF result[1] = "return" THEN <<"has_project", TRUE>>
    ELSE IF result = UpstreamNotFoundError THEN <<"has_project", FALSE>>
    ELSE result

\* the call of worker w ends with result
call_ends(c, result) ==
    [c EXCEPT !.pc = "intx",
              !.result = IF c.op = "has_project_perstage"
                         THEN has_project_result(result) ELSE result]

Operations == {"get_simplelinks_perstage", "has_project_perstage"}

\* a worker calls get_simplelinks_perstage or has_project_perstage in its
\* transaction: the call ends from what is cached, or asks upstream
call_perstage(w, op) ==
    /\ call[w].pc = "intx"
    /\ LET view == tx_view(w)
           loaded == _load_cache_links(view)
           cached == get_simplelinks_perstage_cached(view)
       IN  IF op = "has_project_perstage" /\ is_project_cached(view)
           THEN /\ call' = [call EXCEPT ![w] =
                        [IdleCall EXCEPT !.pc = "intx", !.op = op,
                                         !.result = <<"has_project", TRUE>>]]
                /\ UNCHANGED requests
           ELSE IF cached # NoResult
           THEN /\ call' = [call EXCEPT ![w] =
                        call_ends([IdleCall EXCEPT !.op = op], cached)]
                /\ UNCHANGED requests
           ELSE /\ requests < MaxRequests
                /\ requests' = requests + 1
                /\ call' = [call EXCEPT ![w] =
                        [IdleCall EXCEPT !.pc = "fetching", !.op = op,
                                         !.links = loaded[2],
                                         !.cache_serial = loaded[3]]]
    /\ UNCHANGED <<is_replica, offline, now, tx, tasks, background, mirror_state>>

\* lines 591-607: with old links the call returns them, else it raises
stale_or_raise(c, error) ==
    call_ends(c, IF c.links # NoLinks THEN Returned(c.links) ELSE error)

\* a timeout after which the primary creates no task
fetch_timeout_without_task(w) ==
    /\ call[w].pc = "fetching"
    /\ background.fetch # "running" /\ background.task # "awaiting"
    /\ UNCHANGED <<tasks, background>>
    /\ project2time' = refresh
    /\ call' = [call EXCEPT ![w] = stale_or_raise(@, UpstreamError)]
    /\ UNCHANGED <<is_replica, offline, now, requests, tx, cache_projectnames,
                   store, master_ahead>>

\* a timeout after which a replica creates a task as the primary does
fetch_timeout_with_task_on_replica(w) ==
    /\ call[w].pc = "fetching"
    /\ background.fetch # "running" /\ background.task # "awaiting"
    /\ tasks' = tasks + 1
    /\ background' = [fetch |-> "running", cache_serial |-> call[w].cache_serial,
                      info |-> NoInfo, task |-> "awaiting"]
    /\ project2time' = refresh
    /\ call' = [call EXCEPT ![w] = stale_or_raise(@, UpstreamError)]
    /\ UNCHANGED <<is_replica, offline, now, requests, tx, cache_projectnames,
                   store, master_ahead>>

\* asyncio.TimeoutError: the fetch did not end within self.timeout.  The
\* fetch goes on without the caller; on the primary a task is created that
\* awaits newlinks_future (MaxTasks bounds the fetches and tasks left behind
\* at one time)
fetch_timeout(w) ==
    /\ call[w].pc = "fetching"
    /\ background.fetch # "running" /\ background.task # "awaiting"
    /\ tasks' = IF is_replica THEN tasks ELSE tasks + 1
    /\ background' = [fetch |-> "running", cache_serial |-> call[w].cache_serial,
                      info |-> NoInfo,
                      task |-> IF is_replica THEN "none" ELSE "awaiting"]
    /\ project2time' = refresh
    /\ call' = [call EXCEPT ![w] = stale_or_raise(@, UpstreamError)]
    /\ UNCHANGED <<is_replica, offline, now, requests, tx, cache_projectnames,
                   store, master_ahead>>

\* a 404 that leaves the retrieval timestamp alone
fetch_not_found_without_refresh(w) ==
    /\ call[w].pc = "fetching"
    /\ call' = [call EXCEPT ![w] = stale_or_raise(@, UpstreamNotFoundError)]
    /\ UNCHANGED <<is_replica, offline, now, requests, tx, tasks, background, mirror_state>>

\* the response has status 404
fetch_not_found(w) ==
    /\ call[w].pc = "fetching"
    /\ project2time' = refresh
    /\ call' = [call EXCEPT ![w] = stale_or_raise(@, UpstreamNotFoundError)]
    /\ UNCHANGED <<is_replica, offline, now, requests, tx, tasks, background, cache_projectnames,
                   store, master_ahead>>

\* the response has another status than 200 and 404 (a network failure
\* comes as a response of that kind)
fetch_error(w) ==
    /\ call[w].pc = "fetching"
    /\ call' = [call EXCEPT ![w] = stale_or_raise(@, UpstreamError)]
    /\ UNCHANGED <<is_replica, offline, now, requests, tx, tasks, background, mirror_state>>

\* a _save_cache_links that keeps the serial of the record it replaces
_save_cache_links_keeping_serial(view, links, serial) ==
    LET kept == IF view.rec # NoRecord THEN view.rec.serial ELSE serial
    IN  IF view.rec # [serial |-> kept, links |-> links]
        THEN [view EXCEPT !.rec = [serial |-> kept, links |-> links],
                          !.names = @ \cup {"pkg"}]
        ELSE view

\* _save_cache_links: the state the write transaction holds afterwards
_save_cache_links(view, links, serial) ==
    IF view.rec # [serial |-> serial, links |-> links]
    THEN [view EXCEPT !.rec = [serial |-> serial, links |-> links],
                      !.names = @ \cup {"pkg"}]
    ELSE view

\* maplink on each release link: the file entries are made
maplink(view, links) == [view EXCEPT !.entries = @ \cup LinkSet(links)]

\* _update_simplelinks on the primary: the transaction of the worker afterwards
_update_simplelinks_primary(t, links, serial) ==
    LET wt == IF t.write THEN t ELSE restart_as_write_transaction(t)
        view == IF wt.pending # NoChange THEN wt.pending ELSE store[wt.at_serial]
        saved == _save_cache_links(maplink(view, links), links, serial)
    IN  [wt EXCEPT !.pending = IF saved = store[wt.at_serial] THEN NoChange ELSE saved,
                   !.on_commit = TRUE]

\* on a replica the response comes from the primary: its links are those of
\* the record the primary holds at the serial its X-DEVPI-SERIAL header names
primary_serves(newlinks, devpi_serial) ==
    LET log == store \o master_ahead
    IN  /\ devpi_serial \in DOMAIN log
        /\ log[devpi_serial].rec # NoRecord
        /\ log[devpi_serial].rec.links = newlinks

\* a serial test that lets every serial pass
serial_regressed_never(serial, cache_serial) == FALSE

\* line 452
serial_regressed(serial, cache_serial) == serial < cache_serial

\* the response has status 200, with its X-PYPI-LAST-SERIAL header, the
\* links of its page and its X-DEVPI-SERIAL header
fetch_ok(w, header, newlinks, devpi_serial) ==
    /\ call[w].pc = "fetching"
    /\ is_replica => primary_serves(newlinks, devpi_serial)
    /\ LET serial == header_serial(header)
           c == [call[w] EXCEPT !.serial = serial]
       IN  IF serial_regressed(serial, c.cache_serial)
           THEN /\ call' = [call EXCEPT ![w] = stale_or_raise(c, UpstreamError)]
                /\ UNCHANGED <<tx, project2time>>
           ELSE IF c.links # NoLinks /\ LinkSet(c.links) = LinkSet(newlinks)
           THEN /\ project2time' = refresh
                /\ call' = [call EXCEPT ![w] = call_ends(c, Returned(c.links))]
                /\ UNCHANGED tx
           ELSE IF is_replica
           THEN /\ call' = [call EXCEPT ![w] =
                        [c EXCEPT !.pc = "waiting", !.devpi_serial = devpi_serial]]
                /\ UNCHANGED <<tx, project2time>>
           ELSE /\ tx' = [tx EXCEPT ![w] =
                        _update_simplelinks_primary(@, newlinks, serial)]
                /\ call' = [call EXCEPT ![w] = call_ends(c, Returned(newlinks))]
                /\ UNCHANGED project2time
    /\ UNCHANGED <<is_replica, offline, now, requests, tasks, background, cache_projectnames,
                   store, master_ahead>>

\* keyfs.wait_tx_serial(devpi_serial) returns True: the serial is applied
wait_tx_serial_arrived(w) ==
    /\ call[w].pc = "waiting"
    /\ keyfs_serial >= call[w].devpi_serial
    /\ LET rt == restart_read_transaction(tx[w])
           loaded == _load_cache_links(store[rt.at_serial])
       IN  /\ tx' = [tx EXCEPT ![w] = rt]
           /\ IF loaded[2] # NoLinks
              THEN /\ project2time' = refresh
                   /\ call' = [call EXCEPT ![w] = call_ends(@, Returned(loaded[2]))]
              ELSE /\ call' = [call EXCEPT ![w] = call_ends(@, UpstreamError)]
                   /\ UNCHANGED project2time
    /\ UNCHANGED <<is_replica, offline, now, requests, tasks, background, cache_projectnames,
                   store, master_ahead>>

\* keyfs.wait_tx_serial(devpi_serial) returns False: the timeout elapsed
wait_tx_serial_timeout(w) ==
    /\ call[w].pc = "waiting"
    /\ keyfs_serial < call[w].devpi_serial
    /\ call' = [call EXCEPT ![w] = call_ends(@, UpstreamError)]
    /\ UNCHANGED <<is_replica, offline, now, requests, tx, tasks, background, mirror_state>>

(***************************************************************************)
(* Deletions                                                               *)
(***************************************************************************)
KeyError == <<"KeyError", NoLinks>>

NotFound == <<"NotFound", NoLinks>>

\* what a transaction holds pending when it reads view
pending_of(t, view) == IF view = store[t.at_serial] THEN NoChange ELSE view

\* the links whose entry holds a file: those entry.delete() is called on
entries_with_file(view, links) ==
    IF links = NoLinks THEN {}
    ELSE {link \in LinkSet(links) : link \in view.files}

\* del_project, line 242: project in projects
del_project_in_projects(view) == "pkg" \in view.names

\* del_project in the write transaction of worker w
del_project(w) ==
    /\ call[w].pc = "intx" /\ tx[w].write
    /\ LET view == tx_view(w)
           links == _load_cache_links(view)[2]
           deleted == entries_with_file(view, links)
           after == [view EXCEPT !.rec = NoRecord,
                                 !.entries = @ \ deleted,
                                 !.files = @ \ deleted,
                                 !.names = @ \ {"pkg"}]
       IN  IF ~is_project_cached(view)
           THEN /\ call' = [call EXCEPT ![w] =
                        [IdleCall EXCEPT !.pc = "intx", !.op = "del_project",
                                         !.result = KeyError]]
                /\ UNCHANGED <<tx, project2time>>
           ELSE /\ call' = [call EXCEPT ![w] =
                        [IdleCall EXCEPT !.pc = "intx", !.op = "del_project",
                                         !.links = view.rec.links,
                                         !.result = Returned(NoLinks)]]
                /\ tx' = [tx EXCEPT ![w].pending = pending_of(tx[w], after)]
                /\ project2time' =
                        IF del_project_in_projects(view) THEN None ELSE project2time
    /\ UNCHANGED <<is_replica, offline, now, requests, tasks, background,
                   cache_projectnames, store, master_ahead>>

\* del_entry(entry, cleanup=True) of the entry of link, in the write
\* transaction of worker w
del_entry(w, link) ==
    /\ call[w].pc = "intx" /\ tx[w].write
    /\ LET view == tx_view(w)
           after == [view EXCEPT !.entries = @ \ {link}, !.files = @ \ {link}]
           links == _load_cache_links(after)[2]
           left == IF links = NoLinks THEN <<>> ELSE filter_is_file_cached(after, links)
           cleaned == IF left = <<>> THEN [after EXCEPT !.names = @ \ {"pkg"}] ELSE after
       IN  IF link \notin view.files
           THEN /\ call' = [call EXCEPT ![w] =
                        [IdleCall EXCEPT !.pc = "intx", !.op = "del_entry",
                                         !.result = NotFound]]
                /\ UNCHANGED tx
           ELSE /\ call' = [call EXCEPT ![w] =
                        [IdleCall EXCEPT !.pc = "intx", !.op = "del_entry",
                                         !.result = Returned(NoLinks)]]
                /\ tx' = [tx EXCEPT ![w].pending = pending_of(tx[w], cleaned)]
    /\ UNCHANGED <<is_replica, offline, now, requests, tasks, background, mirror_state>>

\* clear_simplelinks_cache in the write transaction of worker w
clear_simplelinks_cache(w) ==
    /\ call[w].pc = "intx" /\ tx[w].write
    /\ project2time' = None
    /\ tx' = [tx EXCEPT ![w].pending =
                pending_of(tx[w], [tx_view(w) EXCEPT !.rec = ClearedRecord])]
    /\ call' = [call EXCEPT ![w] =
            [IdleCall EXCEPT !.pc = "intx", !.op = "clear_simplelinks_cache",
                             !.result = Returned(NoLinks)]]
    /\ UNCHANGED <<is_replica, offline, now, requests, tasks, background,
                   cache_projectnames, store, master_ahead>>

(***************************************************************************)
(* The fetch a timed-out call left behind, and the background task         *)
(***************************************************************************)
\* how the coroutine _async_fetch_releaselinks leaves newlinks_future when it
\* raises: without a result and without an exception.  A task that awaits
\* the future stays; with no task nothing is left of the fetch
fetch_raised ==
    IF background.task = "awaiting"
    THEN [background EXCEPT !.fetch = "failed", !.cache_serial = -1]
    ELSE NoBackground

\* the detached fetch gets status 404
detached_fetch_not_found ==
    /\ background.fetch = "running"
    /\ project2time' = refresh
    /\ background' = fetch_raised
    /\ UNCHANGED <<is_replica, offline, now, requests, tx, call, tasks,
                   cache_projectnames, store, master_ahead>>

\* the detached fetch gets another status than 200 and 404, or no response
detached_fetch_error ==
    /\ background.fetch = "running"
    /\ background' = fetch_raised
    /\ UNCHANGED <<is_replica, offline, now, requests, tx, call, tasks, mirror_state>>

\* the detached fetch gets status 200: the serial test of line 452, then
\* newlinks_future.set_result
detached_fetch_ok(header, newlinks, devpi_serial) ==
    /\ background.fetch = "running"
    /\ is_replica => primary_serves(newlinks, devpi_serial)
    /\ LET serial == header_serial(header)
       IN  background' =
             IF serial_regressed(serial, background.cache_serial) THEN fetch_raised
             ELSE IF background.task # "awaiting" THEN NoBackground
             ELSE [fetch |-> "ok", cache_serial |-> -1,
                   info |-> [serial |-> serial, links |-> newlinks, devpi_serial |-> 0],
                   task |-> "awaiting"]
    /\ UNCHANGED <<is_replica, offline, now, requests, tx, call, tasks, mirror_state>>

\* a keyfs that never lets the write transaction of the task begin
write_admitted_never == FALSE

\* no thread holds a write transaction: keyfs.transaction(write=True) of the
\* task gets write admission
write_admitted == \A w \in Workers : ~tx[w].write

\* a task that stores the fetched record without comparing the link sets
in_future_saves_always(view, info) == TRUE

\* _update_simplelinks_in_future, line 537: we got changes
in_future_got_changes(view, info) ==
    LET links == _load_cache_links(view)[2]
    IN  links = NoLinks \/ LinkSet(links) # LinkSet(info.links)

\* _update_simplelinks_in_future once newlinks_future has its result: one
\* write transaction at the current serial, in which the record is loaded
\* and, with changes, _update_simplelinks stores the fetched one; the commit
\* runs on_commit
_update_simplelinks_in_future ==
    /\ background.fetch = "ok" /\ background.task = "awaiting"
    /\ write_admitted
    /\ LET view == store[keyfs_serial]
           info == background.info
           saved == _save_cache_links(maplink(view, info.links), info.links, info.serial)
       IN  IF in_future_got_changes(view, info)
           THEN /\ saved # view => Len(store) < MaxStore
                /\ store' = IF saved # view THEN Append(store, saved) ELSE store
                /\ project2time' = refresh
                /\ cache_projectnames' = cache_projectnames \cup {"pkg"}
           ELSE UNCHANGED <<store, project2time, cache_projectnames>>
    /\ background' = [NoBackground EXCEPT !.task = "done"]
    /\ UNCHANGED <<is_replica, offline, now, requests, tx, call, tasks, master_ahead>>

(***************************************************************************)
(* The environment: the clock, and on a replica the replication stream     *)
(***************************************************************************)
tick ==
    /\ now < MaxTime
    /\ now' = now + 1
    /\ UNCHANGED <<is_replica, offline, requests, tx, call, tasks, background, mirror_state>>

\* the records the primary of a replica persists while the replica runs
MasterRecords == {rec \in Records : rec.serial = 7}

\* the primary commits a state of the project
master_commit(state) ==
    /\ is_replica
    /\ Len(store) + Len(master_ahead) < MaxStore
    /\ master_ahead' = Append(master_ahead, state)
    /\ UNCHANGED <<is_replica, offline, now, requests, tx, call, tasks, background,
                   project2time, cache_projectnames, store>>

\* the replication thread applies the next commit of the primary
replication_apply ==
    /\ is_replica
    /\ master_ahead # <<>>
    /\ store' = Append(store, Head(master_ahead))
    /\ master_ahead' = Tail(master_ahead)
    /\ UNCHANGED <<is_replica, offline, now, requests, tx, call, tasks, background,
                   project2time, cache_projectnames>>

(***************************************************************************)
(* The key.set calls of _save_cache_links and add_project_name on          *)
(* key_projsimplelinks(project) and key_projects                           *)
(***************************************************************************)
\* an add_project_name that sets the name-set whether the name is in it or not
add_project_name_sets_always(view) == <<"projects">>

\* add_project_name, lines 227-229: the key.set calls it makes
add_project_name_sets(view) ==
    IF "pkg" \notin view.names THEN <<"projects">> ELSE <<>>

\* add_project_name: the state the write transaction holds afterwards
add_project_name(view) ==
    IF "pkg" \notin view.names THEN [view EXCEPT !.names = @ \cup {"pkg"}] ELSE view

\* a _save_cache_links that sets the record whether it differs or not
save_sets_always(view, links, serial) == TRUE

\* _save_cache_links, line 374: old != data
save_differs(view, links, serial) == view.rec # [serial |-> serial, links |-> links]

\* _save_cache_links, lines 373-379: the key.set calls it makes
_save_cache_links_sets(view, links, serial) ==
    IF save_differs(view, links, serial)
    THEN <<"projsimplelinks">> \o add_project_name_sets(view)
    ELSE <<>>

\* what the transaction t reads once _update_simplelinks has made it a write
\* transaction
write_view(t) ==
    IF t.write THEN (IF t.pending # NoChange THEN t.pending ELSE store[t.at_serial])
    ELSE store[keyfs_serial]

\* _update_simplelinks on the primary, in the transaction of worker w, with
\* the links and the serial of a response
_update_simplelinks(w, links, serial) ==
    /\ ~is_replica
    /\ call[w].pc = "intx"
    /\ tx' = [tx EXCEPT ![w] = _update_simplelinks_primary(@, links, serial)]
    /\ key_sets' = _save_cache_links_sets(maplink(write_view(tx[w]), links), links, serial)
    /\ call' = [call EXCEPT ![w] =
            [IdleCall EXCEPT !.pc = "intx", !.op = "_update_simplelinks",
                             !.serial = serial, !.result = Returned(links)]]
    /\ UNCHANGED <<is_replica, offline, now, requests, tasks, background, mirror_state>>

\* add_project_name(project) in the write transaction of worker w
call_add_project_name(w) ==
    /\ call[w].pc = "intx" /\ tx[w].write
    /\ tx' = [tx EXCEPT ![w].pending = pending_of(tx[w], add_project_name(tx_view(w)))]
    /\ key_sets' = add_project_name_sets(tx_view(w))
    /\ call' = [call EXCEPT ![w] =
            [IdleCall EXCEPT !.pc = "intx", !.op = "add_project_name",
                             !.result = Returned(NoLinks)]]
    /\ UNCHANGED <<is_replica, offline, now, requests, tasks, background, mirror_state>>

(***************************************************************************)
(* ProjectNamesCache and ProjectUpdateCache, shared by the threads of the  *)
(* process.  "self._data = self._data.union({project})" reads the          *)
(* attribute, builds the new frozenset and stores the attribute: another   *)
(* thread can run between the read and the store.                          *)
(***************************************************************************)
Projects == {"pkg", "p2", "p3"}

\* a thread that is in no call of add or discard; added holds the names
\* whose add has returned
NotAdding == [pc |-> "idle", project |-> "none", data |-> {}, added |-> {}]

\* ProjectNamesCache.add, the read of self._data
add_read(t, project) ==
    /\ adding[t].pc = "idle"
    /\ \A u \in Threads \ {t} : adding[u].project # project
    /\ adding' = [adding EXCEPT ![t] =
                    [@ EXCEPT !.pc = "add", !.project = project,
                              !.data = cache_projectnames]]
    /\ UNCHANGED <<cache_projectnames, names_timestamp>>

\* ProjectNamesCache.add, the store of self._data
add_swap(t) ==
    /\ adding[t].pc = "add"
    /\ cache_projectnames' = adding[t].data \cup {adding[t].project}
    /\ adding' = [adding EXCEPT ![t] =
                    [NotAdding EXCEPT !.added = adding[t].added \cup {adding[t].project}]]
    /\ UNCHANGED names_timestamp

\* ProjectNamesCache.discard, the read of self._data
discard_read(t, project) ==
    /\ adding[t].pc = "idle"
    /\ adding' = [adding EXCEPT ![t] =
                    [@ EXCEPT !.pc = "discard", !.project = project,
                              !.data = cache_projectnames]]
    /\ UNCHANGED <<cache_projectnames, names_timestamp>>

\* ProjectNamesCache.discard, the store of self._data
discard_swap(t) ==
    /\ adding[t].pc = "discard"
    /\ cache_projectnames' = adding[t].data \ {adding[t].project}
    /\ adding' = [adding EXCEPT ![t] =
                    [NotAdding EXCEPT !.added = adding[t].added \ {adding[t].project}]]
    /\ UNCHANGED names_timestamp

\* ProjectNamesCache.mark_current
mark_current == now

\* ProjectNamesCache.set
names_set(data) ==
    /\ cache_projectnames' = data
    /\ names_timestamp' = mark_current
    /\ UNCHANGED adding

\* ProjectNamesCache.exists
names_exists == names_timestamp # -1

\* ProjectNamesCache.is_expired: time.time() counts the seconds since 1970,
\* so with the initial timestamp -1 the difference is beyond any expiry time
names_is_expired(expiry_time) ==
    IF names_timestamp = -1 THEN TRUE ELSE (now - names_timestamp) >= expiry_time

\* ProjectUpdateCache.get_timestamp
get_timestamp == IF project2time = None THEN 0 ELSE project2time

\* ProjectUpdateCache.expire
expire == None

(***************************************************************************)
(* list_projects_perstage                                                  *)
(***************************************************************************)
\* a list_projects_perstage that keeps the names cache on a changed listing
listing_same(projects) == TRUE

\* list_projects_perstage, line 341: the cache exists and holds the listing
listing_unchanged(projects) == names_exists /\ cache_projectnames = projects

\* list_projects_perstage, lines 345-354, on the primary: the transaction is
\* restarted at the current serial and, when MIRRORNAMESINIT is 0 there,
\* restarted as a write transaction that sets it to 1
trigger_initial_load(t) ==
    LET rt == restart_read_transaction(t)
        wt == restart_as_write_transaction(rt)
    IN  IF store[rt.at_serial].mirrornamesinit = 0
        THEN [wt EXCEPT !.pending = [store[wt.at_serial] EXCEPT !.mirrornamesinit = 1]]
        ELSE rt

\* list_projects_perstage in the transaction of worker w; when it asks
\* upstream, the response has status 200 (ok) and lists projects, or not
list_projects_perstage(w, ok, projects) ==
    /\ call[w].pc = "intx"
    /\ LET persisted == tx_view(w).names
           ends(result) ==
               call' = [call EXCEPT ![w] =
                    [IdleCall EXCEPT !.pc = "intx", !.op = "list_projects_perstage",
                                     !.result = <<"projects", result>>]]
       IN  IF offline
           THEN /\ ends(persisted)
                /\ UNCHANGED <<requests, tx, cache_projectnames, names_timestamp, key_sets>>
           ELSE IF ~names_is_expired(cache_expiry)
           THEN /\ ends(cache_projectnames)
                /\ UNCHANGED <<requests, tx, cache_projectnames, names_timestamp, key_sets>>
           ELSE /\ requests < MaxRequests
                /\ requests' = requests + 1
                /\ IF ~ok
                   THEN /\ ends(persisted)
                        /\ UNCHANGED <<tx, cache_projectnames, names_timestamp, key_sets>>
                   ELSE IF ~listing_unchanged(projects)
                   THEN /\ cache_projectnames' = projects
                        /\ names_timestamp' = mark_current
                        /\ tx' = IF is_replica THEN tx
                                 ELSE [tx EXCEPT ![w] = trigger_initial_load(@)]
                        /\ key_sets' = IF tx'[w].pending # NoChange
                                       THEN <<"mirrornamesinit">> ELSE <<>>
                        /\ ends(projects)
                   ELSE /\ names_timestamp' = mark_current
                        /\ ends(projects)
                        /\ UNCHANGED <<tx, cache_projectnames, key_sets>>
    /\ UNCHANGED <<is_replica, offline, now, tasks, background, project2time, store,
                   master_ahead, adding>>

(***************************************************************************)
(* The specification                                                       *)
(***************************************************************************)
keyfs_vars == <<pc, write_lock, kv, changelog, tx_kv, changes, commit_serial,
                notifications, relpath_cache, changelog_cache>>

files_vars == <<files, tx_files, files_in_tx, dirty_files, io_result>>

schema_vars == <<sqlite_master, tx_sqlite_master, schema, missing, ensure_pc, ensure_log>>

mirror_vars == <<is_replica, offline, now, project2time, cache_projectnames, store,
                 master_ahead, requests, tasks, tx, call, background>>

names_vars == <<key_sets, names_timestamp, adding>>

vars == <<keyfs_vars, files_vars, schema_vars, mirror_vars, names_vars>>

\* a primary that has cached nothing, before any call
MirrorInit ==
    /\ is_replica = FALSE
    /\ offline = FALSE
    /\ now = 0
    /\ project2time = None
    /\ cache_projectnames = {}
    /\ store = <<EmptyState>>
    /\ master_ahead = <<>>
    /\ requests = 0
    /\ tasks = 0
    /\ tx = [w \in Workers |-> NoTx]
    /\ call = [w \in Workers |-> IdleCall]
    /\ background = NoBackground

\* no call has been made
NamesInit ==
    /\ key_sets = <<>>
    /\ names_timestamp = -1
    /\ adding = [t \in Threads |-> NotAdding]

\* the state of the blob table after construction, before any call
FilesInit ==
    /\ files = EmptyFn
    /\ tx_files = EmptyFn
    /\ files_in_tx = TRUE
    /\ dirty_files = EmptyFn
    /\ io_result = <<"none", <<>>, "ok", None>>

KeyFSInit ==
    /\ pc = [t \in Threads |-> "idle"]
    /\ write_lock = NoThread
    /\ kv = EmptyFn
    /\ changelog = EmptyFn
    /\ tx_kv = [t \in Threads |-> EmptyFn]
    /\ changes = [t \in Threads |-> EmptyFn]
    /\ commit_serial = [t \in Threads |-> -1]
    /\ notifications = EmptyFn
    /\ relpath_cache = EmptyFn
    /\ changelog_cache = EmptyCache

\* the catalogue once BaseStorage.__init__ has returned: ensure_tables_exist
\* has made every expected object
SchemaInit ==
    /\ sqlite_master = expected_schema
    /\ tx_sqlite_master = expected_schema
    /\ schema = expected_schema
    /\ missing = {}
    /\ ensure_pc = "done"
    /\ ensure_log = [initial |-> expected_schema, begun |-> 0, executed |-> <<>>,
                      calls |-> 1]

\* what the steps of Spec leave alone
NotKeyFS == <<files_vars, schema_vars, mirror_vars, names_vars>>

\* what the steps of SpecFiles leave alone
NotFiles == <<keyfs_vars, schema_vars, mirror_vars, names_vars>>

\* what the steps of SpecSchema leave alone
NotSchema == <<keyfs_vars, files_vars, mirror_vars, names_vars>>

\* what the steps of SpecMirror leave alone
NotMirror == <<keyfs_vars, files_vars, schema_vars, names_vars>>

Init == KeyFSInit /\ FilesInit /\ SchemaInit /\ MirrorInit /\ NamesInit

Next ==
    \/ \E t \in Threads : get_connection_write(t) /\ UNCHANGED NotKeyFS
    \/ \E t \in Threads : get_connection_busy(t) /\ UNCHANGED NotKeyFS
    \/ \E t \in Threads : get_connection_timeout(t) /\ UNCHANGED NotKeyFS
    \/ \E t \in Threads : close(t) /\ UNCHANGED NotKeyFS
    \/ \E t \in Threads : write_transaction(t) /\ UNCHANGED NotKeyFS
    \/ \E t \in Threads, tk \in TypedKeys, v \in Values, b \in BackSerialArgs :
            record_set(t, tk, v, b) /\ UNCHANGED NotKeyFS
    \/ \E t \in Threads : exit_write_changelog_entry(t) /\ UNCHANGED NotKeyFS
    \/ \E t \in Threads : exit_commit(t) /\ UNCHANGED NotKeyFS
    \/ \E t \in Threads : exit_notify(t) /\ UNCHANGED NotKeyFS
    \/ \E t \in Threads : exit_rollback(t) /\ UNCHANGED NotKeyFS
    \/ \E t \in Threads : exit_raise(t) /\ UNCHANGED NotKeyFS
    \/ \E c \in Threads, serial \in ChangesSerials :
            get_changes(c, serial) /\ UNCHANGED NotKeyFS
    \/ \E c \in Threads, relpath \in Relpaths, serial \in ReadSerials :
            get_relpath_at(c, relpath, serial) /\ UNCHANGED NotKeyFS
    \/ \E c \in Threads, keynames \in (SUBSET KeyNames) \ {{}}, serial \in ReadSerials :
            iter_relpaths_at(c, keynames, serial) /\ UNCHANGED NotKeyFS

Spec == Init /\ [][Next]_vars

NextFiles ==
    \/ \E path \in Paths : io_file_exists(path) /\ UNCHANGED NotFiles
    \/ \E path \in Paths, content \in Contents :
            io_file_set(path, content) /\ UNCHANGED NotFiles
    \/ \E path \in Paths : io_file_get(path) /\ UNCHANGED NotFiles
    \/ \E path \in Paths : io_file_size(path) /\ UNCHANGED NotFiles
    \/ \E path \in Paths : io_file_delete(path) /\ UNCHANGED NotFiles
    \/ commit_files_without_increasing_serial /\ UNCHANGED NotFiles
    \/ rollback /\ UNCHANGED NotFiles

\* every turn of the loop in get_connection tries "begin immediate" again,
\* and the monotonic clock it reads moves on: a thread in the loop gets the
\* connection or, past 30 seconds, the error
SpecWait ==
    /\ Init /\ [][Next]_vars
    /\ \A t \in Threads :
            WF_vars((get_connection_write(t) \/ get_connection_timeout(t))
                    /\ UNCHANGED NotKeyFS)

SpecFiles == Init /\ [][NextFiles]_vars

\* the first call of ensure_tables_exist on any catalogue a file can hold
InitSchema ==
    /\ KeyFSInit /\ FilesInit /\ MirrorInit /\ NamesInit
    /\ \E f \in InitialCatalogs :
        /\ sqlite_master = CatalogOf(f)
        /\ tx_sqlite_master = CatalogOf(f)
        /\ ensure_log = [initial |-> CatalogOf(f), begun |-> 0, executed |-> <<>>,
                          calls |-> 1]
    /\ schema = EmptyFn
    /\ missing = {}
    /\ ensure_pc = "start"

NextSchema ==
    \/ ensure_reflect /\ UNCHANGED NotSchema
    \/ ensure_begin /\ UNCHANGED NotSchema
    \/ ensure_create /\ UNCHANGED NotSchema
    \/ ensure_commit /\ UNCHANGED NotSchema
    \/ ensure_tables_exist /\ UNCHANGED NotSchema

SpecSchema == InitSchema /\ [][NextSchema]_vars

\* the records an earlier run can have left
InitialRecords == {rec \in Records : rec.links # <<"b", "a">>}

\* a process starts as a primary or as a replica, offline or not, on a store
\* that holds no record of the project or a record persisted by an earlier
\* run, with no retrieval timestamp in RAM
InitMirror ==
    /\ KeyFSInit /\ FilesInit /\ SchemaInit /\ NamesInit
    /\ is_replica \in BOOLEAN
    /\ offline \in BOOLEAN
    /\ now = 0
    /\ project2time = None
    /\ cache_projectnames = {}
    /\ store \in {<<EmptyState>>} \cup {<<StateOf(rec)>> : rec \in InitialRecords}
    /\ master_ahead = <<>>
    /\ requests = 0
    /\ tasks = 0
    /\ tx = [w \in Workers |-> NoTx]
    /\ call = [w \in Workers |-> IdleCall]
    /\ background = NoBackground

NextMirror ==
    \/ \E w \in Workers, write \in BOOLEAN :
            begin_transaction(w, write) /\ UNCHANGED NotMirror
    \/ \E w \in Workers : commit_transaction(w) /\ UNCHANGED NotMirror
    \/ \E w \in Workers : rollback_transaction(w) /\ UNCHANGED NotMirror
    \/ \E w \in Workers, op \in Operations : call_perstage(w, op) /\ UNCHANGED NotMirror
    \/ \E w \in Workers : fetch_timeout(w) /\ UNCHANGED NotMirror
    \/ \E w \in Workers : fetch_not_found(w) /\ UNCHANGED NotMirror
    \/ \E w \in Workers : fetch_error(w) /\ UNCHANGED NotMirror
    \/ \E w \in Workers, header \in SerialHeaders, newlinks \in LinkLists,
            devpi_serial \in 1 .. MaxStore :
            fetch_ok(w, header, newlinks, devpi_serial) /\ UNCHANGED NotMirror
    \/ detached_fetch_not_found /\ UNCHANGED NotMirror
    \/ detached_fetch_error /\ UNCHANGED NotMirror
    \/ \E header \in SerialHeaders, newlinks \in LinkLists, devpi_serial \in 1 .. MaxStore :
            detached_fetch_ok(header, newlinks, devpi_serial) /\ UNCHANGED NotMirror
    \/ _update_simplelinks_in_future /\ UNCHANGED NotMirror
    \/ \E w \in Workers : wait_tx_serial_arrived(w) /\ UNCHANGED NotMirror
    \/ \E w \in Workers : wait_tx_serial_timeout(w) /\ UNCHANGED NotMirror
    \/ tick /\ UNCHANGED NotMirror
    \/ \E rec \in MasterRecords : master_commit(StateOf(rec)) /\ UNCHANGED NotMirror
    \/ replication_apply /\ UNCHANGED NotMirror

SpecMirror == InitMirror /\ [][NextMirror]_vars

\* a primary starts on a store that holds no record or one of an earlier run
InitBackground ==
    /\ KeyFSInit /\ FilesInit /\ SchemaInit /\ NamesInit
    /\ is_replica = FALSE
    /\ offline = FALSE
    /\ now = 0
    /\ project2time = None
    /\ cache_projectnames = {}
    /\ store \in {<<EmptyState>>} \cup
                 {<<StateOf(rec)>> : rec \in {r \in InitialRecords : r.serial = 5}}
    /\ master_ahead = <<>>
    /\ requests = 0
    /\ tasks = 0
    /\ tx = [w \in Workers |-> NoTx]
    /\ call = [w \in Workers |-> IdleCall]
    /\ background = NoBackground

\* the transaction of a request ends
transaction_ends(w) == commit_transaction(w) \/ rollback_transaction(w)

\* the fetch of a call ends, in time or not
fetch_ends(w) ==
    \/ fetch_timeout(w) \/ fetch_not_found(w) \/ fetch_error(w)
    \/ \E header \in SerialHeaders, newlinks \in LinkLists :
            fetch_ok(w, header, newlinks, 1)

\* the fetch that was left behind ends
detached_fetch_ends ==
    \/ detached_fetch_not_found \/ detached_fetch_error
    \/ \E header \in SerialHeaders, newlinks \in LinkLists :
            detached_fetch_ok(header, newlinks, 1)

NextBackground ==
    \/ \E w \in Workers, write \in BOOLEAN :
            begin_transaction(w, write) /\ UNCHANGED NotMirror
    \/ \E w \in Workers : transaction_ends(w) /\ UNCHANGED NotMirror
    \/ \E w \in Workers, op \in Operations : call_perstage(w, op) /\ UNCHANGED NotMirror
    \/ \E w \in Workers : fetch_ends(w) /\ UNCHANGED NotMirror
    \/ detached_fetch_ends /\ UNCHANGED NotMirror
    \/ _update_simplelinks_in_future /\ UNCHANGED NotMirror
    \/ tick /\ UNCHANGED NotMirror

\* the request threads end their fetches and their transactions, the event
\* loop ends the fetch that was left behind and runs the task whenever the
\* task's write transaction can begin
SpecBackground ==
    /\ InitBackground /\ [][NextBackground]_vars
    /\ \A w \in Workers : WF_vars(transaction_ends(w) /\ UNCHANGED NotMirror)
    /\ \A w \in Workers : WF_vars(fetch_ends(w) /\ UNCHANGED NotMirror)
    /\ WF_vars(detached_fetch_ends /\ UNCHANGED NotMirror)
    /\ SF_vars(_update_simplelinks_in_future /\ UNCHANGED NotMirror)

\* a record of an earlier run, with the files that were fetched for it
StateWithFiles(rec, fetched) == [StateOf(rec) EXCEPT !.files = fetched]

\* a primary starts, offline or not, on a store that holds no record of the
\* project or a record of an earlier run with some of its files
InitProject ==
    /\ KeyFSInit /\ FilesInit /\ SchemaInit /\ NamesInit
    /\ is_replica = FALSE
    /\ offline \in BOOLEAN
    /\ now = 0
    /\ project2time = None
    /\ cache_projectnames = {}
    /\ store \in {<<EmptyState>>} \cup
                 {<<StateWithFiles(rec, fetched)>> :
                    rec \in {r \in InitialRecords : r.serial = 5},
                    fetched \in SUBSET {"a", "b"}}
    /\ \A link \in store[1].files : link \in store[1].entries
    /\ master_ahead = <<>>
    /\ requests = 0
    /\ tasks = 0
    /\ tx = [w \in Workers |-> NoTx]
    /\ call = [w \in Workers |-> IdleCall]
    /\ background = NoBackground

NextProject ==
    \/ \E w \in Workers, write \in BOOLEAN :
            begin_transaction(w, write) /\ UNCHANGED NotMirror
    \/ \E w \in Workers : commit_transaction(w) /\ UNCHANGED NotMirror
    \/ \E w \in Workers : rollback_transaction(w) /\ UNCHANGED NotMirror
    \/ \E w \in Workers, op \in Operations : call_perstage(w, op) /\ UNCHANGED NotMirror
    \/ \E w \in Workers : fetch_not_found(w) /\ UNCHANGED NotMirror
    \/ \E w \in Workers : fetch_error(w) /\ UNCHANGED NotMirror
    \/ \E w \in Workers : del_project(w) /\ UNCHANGED NotMirror
    \/ \E w \in Workers, link \in {"a", "b"} : del_entry(w, link) /\ UNCHANGED NotMirror
    \/ \E w \in Workers : clear_simplelinks_cache(w) /\ UNCHANGED NotMirror
    \/ tick /\ UNCHANGED NotMirror

SpecProject == InitProject /\ [][NextProject]_vars

\* a primary starts on a store that holds no record of the project or a
\* record of an earlier run, with the project in the name-set or, after a
\* del_entry that removed it, not
InitSave ==
    /\ KeyFSInit /\ FilesInit /\ SchemaInit /\ NamesInit
    /\ is_replica = FALSE
    /\ offline = FALSE
    /\ now = 0
    /\ project2time = None
    /\ cache_projectnames = {}
    /\ store \in {<<EmptyState>>} \cup
                 {<<[StateOf(rec) EXCEPT !.names = names]>> :
                    rec \in InitialRecords, names \in {{}, {"pkg"}}}
    /\ master_ahead = <<>>
    /\ requests = 0
    /\ tasks = 0
    /\ tx = [w \in Workers |-> NoTx]
    /\ call = [w \in Workers |-> IdleCall]
    /\ background = NoBackground

\* what the steps of begin, commit and rollback leave alone in SpecSave
NotSave == <<keyfs_vars, files_vars, schema_vars, names_timestamp, adding>>

NextSave ==
    \/ \E w \in Workers, write \in BOOLEAN :
            begin_transaction(w, write) /\ UNCHANGED NotMirror
    \/ \E w \in Workers : commit_transaction(w) /\ UNCHANGED NotMirror
    \/ \E w \in Workers : rollback_transaction(w) /\ UNCHANGED NotMirror
    \/ \E w \in Workers, links \in LinkLists, serial \in {5, 7} :
            _update_simplelinks(w, links, serial) /\ UNCHANGED NotSave
    \/ \E w \in Workers : call_add_project_name(w) /\ UNCHANGED NotSave

SpecSave == InitSave /\ [][NextSave]_vars

\* what a step on the two caches leaves alone
NotCaches == <<keyfs_vars, files_vars, schema_vars, is_replica, offline, store,
               master_ahead, requests, tasks, tx, call, background, key_sets>>

\* the threads of a process add names to the cache of a new process
NextAdd ==
    \/ \E t \in Threads, project \in Projects :
            add_read(t, project) /\ UNCHANGED <<NotCaches, now, project2time>>
    \/ \E t \in Threads : add_swap(t) /\ UNCHANGED <<NotCaches, now, project2time>>

SpecAdd == Init /\ [][NextAdd]_vars

\* the thread that works on the caches in SpecCaches
CacheThread == "t1"

\* the names the operations of SpecCaches are called with
CachedProjects == {"pkg", "p2"}

\* the thread is in no call on the caches
BetweenOperations == adding[CacheThread].pc = "idle"

\* every operation of the two caches, called by one thread one after the
\* other in any order, and the clock
NextCaches ==
    \/ \E project \in CachedProjects :
            add_read(CacheThread, project) /\ UNCHANGED <<NotCaches, now, project2time>>
    \/ add_swap(CacheThread) /\ UNCHANGED <<NotCaches, now, project2time>>
    \/ \E project \in CachedProjects :
            discard_read(CacheThread, project) /\ UNCHANGED <<NotCaches, now, project2time>>
    \/ discard_swap(CacheThread) /\ UNCHANGED <<NotCaches, now, project2time>>
    \/ \E data \in SUBSET CachedProjects :
            /\ BetweenOperations
            /\ names_set(data) /\ UNCHANGED <<NotCaches, now, project2time>>
    \/ /\ BetweenOperations
       /\ names_timestamp' = mark_current
       /\ UNCHANGED <<NotCaches, now, project2time, cache_projectnames, adding>>
    \/ /\ BetweenOperations
       /\ project2time' = refresh
       /\ UNCHANGED <<NotCaches, now, cache_projectnames, names_timestamp, adding>>
    \/ /\ BetweenOperations
       /\ project2time' = expire
       /\ UNCHANGED <<NotCaches, now, cache_projectnames, names_timestamp, adding>>
    \/ tick /\ UNCHANGED NotMirror

SpecCaches == Init /\ [][NextCaches]_vars

\* the record and the response that SpecList saves
ListedRecord == [serial |-> 5, links |-> <<"a">>]

\* a process starts as a primary or as a replica, offline or not, with an
\* empty names cache, on a store that holds no project or the one project
InitList ==
    /\ KeyFSInit /\ FilesInit /\ SchemaInit /\ NamesInit
    /\ is_replica \in BOOLEAN
    /\ offline \in BOOLEAN
    /\ now = 0
    /\ project2time = None
    /\ cache_projectnames = {}
    /\ store \in {<<EmptyState>>, <<StateOf(ListedRecord)>>}
    /\ master_ahead = <<>>
    /\ requests = 0
    /\ tasks = 0
    /\ tx = [w \in Workers |-> NoTx]
    /\ call = [w \in Workers |-> IdleCall]
    /\ background = NoBackground

NextList ==
    \/ \E w \in Workers, write \in BOOLEAN :
            begin_transaction(w, write) /\ UNCHANGED NotMirror
    \/ \E w \in Workers : commit_transaction(w) /\ UNCHANGED NotMirror
    \/ \E w \in Workers : rollback_transaction(w) /\ UNCHANGED NotMirror
    \/ \E w \in Workers :
            _update_simplelinks(w, ListedRecord.links, ListedRecord.serial)
            /\ UNCHANGED NotSave
    \/ \E w \in Workers, ok \in BOOLEAN, projects \in SUBSET CachedProjects :
            list_projects_perstage(w, ok, projects)
            /\ UNCHANGED <<keyfs_vars, files_vars, schema_vars>>
    \/ tick /\ UNCHANGED NotMirror

SpecList == InitList /\ [][NextList]_vars

(***************************************************************************)
(* Properties                                                              *)
(***************************************************************************)
\* the frontier: the highest committed serial, -1 when nothing is committed
frontier == IF DOMAIN changelog = {} THEN -1 ELSE SetMax(DOMAIN changelog)

\* the serials at which relpath was written, by the committed changelog
WrittenAt(relpath) == {s \in DOMAIN changelog : relpath \in DOMAIN changelog[s]}

ExitsWithError(t) == pc[t] = "open" /\ pc'[t] = "rolledback"

\* C1: the committed serials are 0, 1, 2, ... without a gap; a step that
\* changes the changelog appends one entry at frontier + 1 and leaves every
\* committed entry as it is; a Writer that exits with an error leaves the
\* changelog alone, so that it consumes no serial.
C1_SerialsGapless ==
    /\ [](DOMAIN changelog = 0 .. Cardinality(DOMAIN changelog) - 1)
    /\ [][changelog' # changelog =>
            /\ DOMAIN changelog' = DOMAIN changelog \cup {frontier + 1}
            /\ \A s \in DOMAIN changelog : changelog'[s] = changelog[s]]_vars
    /\ [][\A t \in Threads : ExitsWithError(t) =>
            changelog' = changelog /\ frontier' = commit_serial[t] - 1]_vars

C1_Witness ==
    /\ DOMAIN changelog = {0, 1}
    /\ \E t \in Threads : pc[t] = "rolledback" /\ commit_serial[t] = 1

\* C2: a Writer that exits with an error leaves the committed tables and the
\* notifications unchanged, its index updates are gone from every
\* connection's view of kv, and a Writer opened next on any connection gets
\* the commit_serial the failed one had.
C2_RollbackUndoes ==
    /\ [](\A t \in Threads : pc[t] = "open" =>
            /\ commit_serial[t] = frontier + 1
            /\ \A relpath \in DOMAIN tx_kv[t] \ DOMAIN changes[t] :
                    relpath \in DOMAIN kv /\ tx_kv[t][relpath] = kv[relpath])
    /\ [][\A t \in Threads : ExitsWithError(t) =>
            /\ kv' = kv /\ changelog' = changelog
            /\ notifications' = notifications
            /\ \A c \in Threads : ConnKV(c)' = kv
            /\ \A u \in Threads : Writer_commit_serial(u)' = commit_serial[t]]_vars
    /\ [][\A t \in Threads : pc[t] = "rolledback" /\ pc'[t] # "rolledback" =>
            notifications' = notifications]_vars

C2_Witness ==
    \E t \in Threads :
        /\ pc[t] = "rolledback" /\ commit_serial[t] = 1
        /\ \E u \in Threads : pc[u] = "open" /\ commit_serial[u] = 1 /\ changes[u] # EmptyFn

\* C3: the committed index and the committed changelog agree: the row of a
\* relpath names the last changelog entry that holds the relpath, with the
\* keyname that entry holds, and every relpath of the changelog has a row.
C3_IndexMatchesChangelog ==
    /\ \A relpath \in DOMAIN kv :
        /\ kv[relpath][2] \in WrittenAt(relpath)
        /\ changelog[kv[relpath][2]][relpath][1] = kv[relpath][1]
        /\ \A s \in WrittenAt(relpath) : s <= kv[relpath][2]
    /\ \A s \in DOMAIN changelog : DOMAIN changelog[s] \subseteq DOMAIN kv

C3_Witness ==
    /\ \A t \in Threads : pc[t] = "idle"
    /\ \E r1 \in DOMAIN kv, r2 \in DOMAIN kv :
        /\ kv[r1][2] = 1 /\ WrittenAt(r1) = {0, 1}
        /\ kv[r2][2] = 0

\* the greatest serial below s at which relpath was written, else -1
PreviousWrite(relpath, s) ==
    IF {x \in WrittenAt(relpath) : x < s} = {} THEN -1
    ELSE SetMax({x \in WrittenAt(relpath) : x < s})

\* C4: in the committed changelog the back_serial of every entry of a relpath
\* is the greatest earlier serial that wrote the relpath, or -1 when there is
\* none, so that the chain from the latest entry visits every write and ends
\* at -1 (every record_set call of the model omits back_serial).
C4_BackSerialChain ==
    \A s \in DOMAIN changelog : \A relpath \in DOMAIN changelog[s] :
        changelog[s][relpath][2] = PreviousWrite(relpath, s)

\* the triple visible at serial for relpath, by the committed changelog
VisibleAt(relpath, serial) ==
    LET at == {x \in WrittenAt(relpath) : x <= serial}
    IN IF at = {} THEN KeyErrorResult
       ELSE Found(SetMax(at), changelog[SetMax(at)][relpath][2],
                  changelog[SetMax(at)][relpath][3])

\* C5: on a connection obtained with write=False, get_relpath_at(relpath,
\* serial) returns the triple written at the greatest serial <= serial that
\* wrote the relpath, and reports that the relpath never existed when there
\* is none.
C5_ResolveAt ==
    \A c \in Threads : get_connection_read(c) =>
        \A relpath \in Relpaths, serial \in ReadSerials :
            get_relpath_at_result(c, relpath, serial) = VisibleAt(relpath, serial)

\* what a snapshot read at at_serial yields for the key types keynames
SnapshotAt(keynames, at_serial) ==
    {RelpathInfo(relpath, changelog[VisibleAt(relpath, at_serial)[2]][relpath][1],
                 VisibleAt(relpath, at_serial)[2], VisibleAt(relpath, at_serial)[3],
                 VisibleAt(relpath, at_serial)[4]) :
        relpath \in {r \in Relpaths :
                        /\ VisibleAt(r, at_serial)[1] = "ok"
                        /\ changelog[VisibleAt(r, at_serial)[2]][r][1] \in keynames}}

\* C6: on a connection obtained with write=False, iter_relpaths_at(typedkeys,
\* N) yields exactly the relpaths of the requested key types written at some
\* serial <= N, with the serial, back_serial and value visible at N, whatever
\* is committed above N.
C6_SnapshotIteration ==
    \A c \in Threads : get_connection_read(c) =>
        \A keynames \in (SUBSET KeyNames) \ {{}}, at_serial \in ReadSerials :
            iter_relpaths_at_result(c, keynames, at_serial)
                = <<"ok", SnapshotAt(keynames, at_serial)>>

\* C7: in a Writer that exits without an exception the index rows of the
\* touched relpaths are written before the changelog entry, the entry is
\* appended before the commit, and the commit comes before the notification:
\* a notified serial is committed, no serial is notified twice, and every
\* committed serial is notified once its Writer has left __exit__.
C7_CommitOrder ==
    /\ [](\A t \in Threads :
            /\ pc[t] = "written" =>
                /\ \A relpath \in DOMAIN changes[t] :
                        db_read_typedkey(t, relpath)
                            = <<changes[t][relpath][1], commit_serial[t]>>
                /\ ConnChangelog(t)[commit_serial[t]] = changes[t]
                /\ commit_serial[t] \notin DOMAIN changelog
                /\ commit_serial[t] \notin DOMAIN notifications
            /\ pc[t] = "committed" =>
                /\ commit_serial[t] \in DOMAIN changelog
                /\ commit_serial[t] \notin DOMAIN notifications)
    /\ [](\A s \in DOMAIN notifications :
            notifications[s] = 1 /\ s \in DOMAIN changelog)
    /\ [](\A s \in DOMAIN changelog :
            s \in DOMAIN notifications
                \/ \E t \in Threads : pc[t] = "committed" /\ commit_serial[t] = s)
    /\ [][changelog' # changelog =>
            \E t \in Threads :
                /\ pc[t] = "written" /\ pc'[t] = "committed"
                /\ changelog' = FnPut(changelog, commit_serial[t], changes[t])
                /\ kv' = tx_kv[t]]_vars
    /\ [][notifications' # notifications =>
            \E t \in Threads :
                /\ pc[t] = "committed" /\ pc'[t] = "idle"
                /\ notifications' = FnPut(notifications, commit_serial[t], 1)]_vars

C7_Witness ==
    /\ DOMAIN notifications = {0}
    /\ \E t \in Threads : pc[t] = "committed" /\ commit_serial[t] = 1
    /\ \E relpath \in Relpaths : WrittenAt(relpath) = {0, 1}

\* C8: while a Writer is open, the index read of a relpath it has set returns
\* <<keyname, commit_serial>> on its own connection, and on every other
\* connection the row the relpath had before, if any.
C8_PendingWriteVisible ==
    \A t \in Threads : pc[t] = "open" =>
        \A relpath \in DOMAIN changes[t] :
            /\ db_read_typedkey(t, relpath) = <<changes[t][relpath][1], commit_serial[t]>>
            /\ \A c \in Threads \ {t} :
                /\ db_read_typedkey(c, relpath)[2] < commit_serial[t]
                /\ db_read_typedkey(c, relpath) =
                        IF relpath \in DOMAIN kv THEN kv[relpath] ELSE KeyErrorRow

C8_Witness ==
    \E t \in Threads, relpath \in Relpaths, other \in Relpaths :
        /\ pc[t] = "open"
        /\ relpath \in DOMAIN changes[t] /\ relpath \in DOMAIN kv
        /\ other \in DOMAIN changes[t] /\ other \notin DOMAIN kv
        /\ kv[relpath][2] = 0 /\ commit_serial[t] = 1

\* the threads whose connection holds write admission
Admitted == {t \in Threads : pc[t] \in {"conn", "open", "written", "hung_open"}}

\* C9: at most one connection holds write admission, from its "begin
\* immediate" to its commit or rollback, and a thread can always get a
\* connection with write=False and read on it while a writer is admitted.
C9_SingleWriter ==
    /\ Cardinality(Admitted) <= 1
    /\ \A t \in Threads : t \in Admitted <=> write_lock = t
    /\ \A c \in Threads :
         pc[c] = "idle" /\ write_lock # NoThread =>
            /\ get_connection_read(c)
            /\ ENABLED iter_relpaths_at(c, KeyNames, 0)

C9_Witness ==
    \E t \in Threads, c \in Threads :
        /\ pc[t] = "open" /\ changes[t] # EmptyFn
        /\ pc[c] = "spin"
        /\ relpath_cache # EmptyFn

\* the walk with nothing cached
uncached_get_relpath_at(c, relpath, serial) ==
    (CHOOSE o \in keyfs_get_relpath_at(c, relpath, serial, EmptyCache) : TRUE)[1]

\* C10: on a connection obtained with write=False, get_relpath_at served
\* through the two caches returns what the uncached walk returns in the same
\* state, for every relpath and serial.
C10_CachesTransparent ==
    \A c \in Threads : get_connection_read(c) =>
        \A relpath \in Relpaths, serial \in ReadSerials :
            get_relpath_at_result(c, relpath, serial)
                = uncached_get_relpath_at(c, relpath, serial)

BlobOperations ==
    {"io_file_exists", "io_file_get", "io_file_set", "io_file_size", "io_file_delete"}

\* the absolute paths of the model: those that start at the root
AbsolutePaths == {path \in Paths : Head(path) = "/"}

\* C12: a call of io_file_exists, io_file_get, io_file_set, io_file_size or
\* io_file_delete with an absolute path is rejected with an AssertionError
\* and leaves the table files (committed and as the connection sees it) and
\* dirty_files unchanged; no absolute path ever gets into them.
C12_AbsolutePathRejected ==
    /\ [](io_result[1] \in BlobOperations /\ io_result[2] \in AbsolutePaths =>
            io_result[3] = "AssertionError")
    /\ [][io_result'[1] \in BlobOperations /\ io_result'[2] \in AbsolutePaths =>
            /\ files' = files /\ tx_files' = tx_files
            /\ dirty_files' = dirty_files]_vars
    /\ [](\A path \in DOMAIN files \cup DOMAIN tx_files \cup DOMAIN dirty_files :
            path \notin AbsolutePaths)

C12_Witness ==
    /\ io_result = <<"io_file_delete", <<"/", "f1">>, "AssertionError", None>>
    /\ <<"f1">> \in DOMAIN tx_files
    /\ <<"f1">> \in DOMAIN files
    /\ <<"f2">> \in DOMAIN dirty_files /\ <<"f2">> \notin DOMAIN tx_files

\* the expected objects a catalogue lacks
MissingFrom(catalog) == DOMAIN expected_schema \ DOMAIN catalog

\* C13: a call of ensure_tables_exist ends with the catalogue it started
\* from plus exactly the expected objects that were missing, each made with
\* its expected sql; it executes the tables before the indexes, all in one
\* write transaction whose commit is the only step that changes the
\* catalogue; with nothing missing it begins no write transaction, so that
\* a second call executes nothing and changes nothing.
C13_EnsureTablesExist ==
    /\ [](ensure_pc # "failed")
    /\ [](ensure_pc = "done" =>
            /\ DOMAIN sqlite_master = DOMAIN ensure_log.initial \cup DOMAIN expected_schema
            /\ \A o \in DOMAIN ensure_log.initial : sqlite_master[o] = ensure_log.initial[o]
            /\ \A o \in MissingFrom(ensure_log.initial) : sqlite_master[o] = expected_schema[o]
            /\ {ensure_log.executed[i] : i \in DOMAIN ensure_log.executed}
                    = MissingFrom(ensure_log.initial)
            /\ Len(ensure_log.executed) = Cardinality(MissingFrom(ensure_log.initial))
            /\ ensure_log.begun = IF MissingFrom(ensure_log.initial) = {} THEN 0 ELSE 1
            /\ ensure_log.calls > 1 => ensure_log.begun = 0 /\ ensure_log.executed = <<>>)
    /\ [](\A i \in DOMAIN ensure_log.executed, j \in DOMAIN ensure_log.executed :
            i < j => ~(ensure_log.executed[i][1] = "index"
                        /\ ensure_log.executed[j][1] = "table"))
    /\ [](ensure_pc # "done" => sqlite_master = ensure_log.initial)
    /\ [][ensure_log'.executed # ensure_log.executed /\ ensure_log'.executed # <<>> =>
            ensure_log.begun = 1 /\ ensure_log'.begun = 1]_vars

C13_Witness ==
    /\ ensure_pc = "done"
    /\ ensure_log.calls = 1
    /\ ensure_log.executed = <<<<"table", "files">>, <<"index", "kv_serial_idx">>>>
    /\ sqlite_master[<<"table", "kv">>] = OldSql(<<"table", "kv">>)
    /\ LegacyObject \in DOMAIN sqlite_master

\* C13, second call: nothing is missing, no write transaction is begun
C13_WitnessSecondCall ==
    /\ ensure_pc = "done"
    /\ ensure_log.calls = 2
    /\ ensure_log.begun = 0

\* the call of worker w has ended with an error
Failed(w) ==
    /\ call[w].pc = "intx"
    /\ call[w].result \in {UpstreamError, UpstreamNotFoundError}

\* C14: a call of get_simplelinks_perstage that read a persisted link record
\* in its transaction does not end with an error, whatever the upstream
\* request came to (timeout, 404, another status, a serial below the cached
\* one, a wait for the replicated serial that timed out): it fails only when
\* it read no record.
C14_StaleOverFailure ==
    \A w \in Workers :
        call[w].op = "get_simplelinks_perstage" /\ Failed(w) => call[w].links = NoLinks

\* the retrieval timestamp of the project is inside the expiry window
Fresh == project2time # None /\ now - project2time < cache_expiry

\* worker w is in its transaction, between two calls
BetweenCalls(w) == call[w].pc = "intx"

C16_FreshnessBoundary ==
    /\ [](\A w \in Workers :
            BetweenCalls(w) /\ ~offline /\ tx_view(w).rec # NoRecord =>
                /\ Fresh => get_simplelinks_perstage_cached(tx_view(w))
                                = Returned(tx_view(w).rec.links)
                /\ ~Fresh => get_simplelinks_perstage_cached(tx_view(w)) = NoResult)
    /\ [][\A w \in Workers :
            /\ BetweenCalls(w) /\ ~offline /\ tx_view(w).rec # NoRecord
            /\ call_perstage(w, "get_simplelinks_perstage")
            => IF Fresh
               THEN /\ requests' = requests
                    /\ call'[w].result = Returned(tx_view(w).rec.links)
               ELSE /\ requests' = requests + 1
                    /\ call'[w].pc = "fetching"]_vars

\* a second call exactly cache_expiry after the retrieval asks upstream
C16_Witness ==
    \E w \in Workers :
        /\ ~offline /\ project2time = 0 /\ now = cache_expiry
        /\ call[w].pc = "fetching" /\ call[w].links # NoLinks
        /\ requests = 2

\* C17: a 404 for a project of which the call read no record refreshes the
\* retrieval timestamp and writes nothing; get_simplelinks_perstage ends
\* with UpstreamNotFoundError and has_project_perstage with False; and as
\* long as the timestamp is inside the expiry window and no record is
\* persisted, both end so again without an upstream request.
C17_NotFoundIsCached ==
    /\ [][\A w \in Workers :
            fetch_not_found(w) /\ call[w].links = NoLinks =>
                /\ project2time' = now
                /\ UNCHANGED <<tx, store, cache_projectnames, requests>>
                /\ call'[w].pc = "intx"
                /\ call'[w].result =
                        IF call[w].op = "has_project_perstage"
                        THEN <<"has_project", FALSE>> ELSE UpstreamNotFoundError]_vars
    /\ [](\A w \in Workers :
            BetweenCalls(w) /\ ~offline /\ Fresh /\ tx_view(w).rec = NoRecord =>
                /\ ~is_project_cached(tx_view(w))
                /\ get_simplelinks_perstage_cached(tx_view(w)) = UpstreamNotFoundError)
    /\ [][\A w \in Workers, op \in Operations :
            /\ BetweenCalls(w) /\ ~offline /\ Fresh /\ tx_view(w).rec = NoRecord
            /\ call_perstage(w, op)
            => /\ requests' = requests
               /\ call'[w].pc = "intx"
               /\ call'[w].result =
                        IF op = "has_project_perstage"
                        THEN <<"has_project", FALSE>> ELSE UpstreamNotFoundError
               /\ UNCHANGED <<tx, store, project2time>>]_vars

\* has_project_perstage got a 404 and, a tick later, is served False again
\* with no second request
C17_Witness ==
    \E w \in Workers :
        /\ ~offline /\ Fresh /\ now > project2time
        /\ BetweenCalls(w) /\ tx_view(w).rec = NoRecord
        /\ call[w].op = "has_project_perstage"
        /\ call[w].result = <<"has_project", FALSE>>
        /\ requests = 1

\* C18: a 200 response whose serial (that of the X-PYPI-LAST-SERIAL header,
\* -1 when the header is missing or no number) is below the serial of the
\* record the call read ends the refresh with an UpstreamError, which the
\* call answers with the links it read: the persisted record, the name-set,
\* the pending changes of the transaction, the retrieval timestamp and the
\* names cache are left as they are, and the transaction is not restarted
\* as a write transaction.
C18_SerialRegression ==
    [][\A w \in Workers, header \in SerialHeaders, newlinks \in LinkLists,
            devpi_serial \in 1 .. MaxStore :
        /\ fetch_ok(w, header, newlinks, devpi_serial)
        /\ header_serial(header) < call[w].cache_serial
        => /\ UNCHANGED <<tx, store, project2time, cache_projectnames, tasks>>
           /\ call'[w].pc = "intx"
           /\ call[w].links # NoLinks
           /\ call'[w].result =
                IF call[w].op = "has_project_perstage"
                THEN <<"has_project", TRUE>> ELSE Returned(call[w].links)]_vars

\* a response without the header came for a record of serial 7
C18_Witness ==
    \E w \in Workers :
        /\ BetweenCalls(w)
        /\ call[w].cache_serial = 7 /\ call[w].serial = -1
        /\ call[w].result = Returned(call[w].links)
        /\ tx[w].write = FALSE /\ project2time = None

\* C19: on the primary, a 200 response that passes the serial test, with
\* links that differ as a set from those the call read or with no record
\* read, makes the transaction a write transaction at the current serial
\* (one that is a write transaction stays as it is), leaves in it a record
\* with the fetched links and the fetched serial, and returns the fetched
\* links; the retrieval timestamp is left alone by that step and by a
\* rollback, and is set when the transaction commits, the step that
\* persists the record.
C19_PrimaryPersists ==
    /\ [][\A w \in Workers, header \in SerialHeaders, newlinks \in LinkLists,
                devpi_serial \in 1 .. MaxStore :
            /\ fetch_ok(w, header, newlinks, devpi_serial)
            /\ ~is_replica
            /\ header_serial(header) >= call[w].cache_serial
            /\ call[w].links = NoLinks \/ LinkSet(call[w].links) # LinkSet(newlinks)
            => /\ tx'[w].write
               /\ tx'[w].at_serial = IF tx[w].write THEN tx[w].at_serial ELSE keyfs_serial
               /\ tx_view(w)'.rec = [serial |-> header_serial(header), links |-> newlinks]
               /\ "pkg" \in tx_view(w)'.names
               /\ tx'[w].on_commit
               /\ call'[w].pc = "intx"
               /\ call'[w].result =
                    IF call[w].op = "has_project_perstage"
                    THEN <<"has_project", TRUE>> ELSE Returned(newlinks)
               /\ UNCHANGED <<store, project2time, cache_projectnames>>]_vars
    /\ [][\A w \in Workers :
            call[w].pc = "intx" /\ call'[w].pc = "notx" /\ tx[w].on_commit =>
                \/ /\ store' = (IF tx[w].pending # NoChange
                                 THEN Append(store, tx[w].pending) ELSE store)
                    /\ project2time' = now
                \/ UNCHANGED <<store, project2time>>]_vars
    /\ [](\A w \in Workers : tx[w].pending # NoChange => tx[w].write /\ tx[w].on_commit)

\* the fetched record is committed at serial 2 and the timestamp is set
C19_Witness ==
    \E w \in Workers :
        /\ ~is_replica /\ call[w].pc = "notx"
        /\ Len(store) = 2 /\ store[1].rec # NoRecord
        /\ store[2].rec = [serial |-> call[w].serial, links |-> call[w].result[2]]
        /\ LinkSet(store[2].rec.links) # LinkSet(store[1].rec.links)
        /\ project2time = now

\* C20: on a replica a call that waits for the serial S of the response
\* leaves the wait in one of two ways.  With a serial >= S applied, its
\* transaction is restarted at the current serial and the record is read
\* there: the retrieval timestamp is refreshed and the links of that record
\* are returned (UpstreamError when no record is there).  With the timeout
\* elapsed before S is applied, the call ends with UpstreamError and
\* nothing is changed.  Only a replica waits, and it writes nothing.
C20_ReplicaWaits ==
    /\ [](\A w \in Workers : call[w].pc = "waiting" => is_replica)
    /\ [](\A w \in Workers : is_replica => ~tx[w].write /\ tx[w].pending = NoChange)
    /\ [][\A w \in Workers :
            call[w].pc = "waiting" /\ call'[w].pc # "waiting" =>
                /\ call'[w].pc = "intx"
                /\ UNCHANGED <<store, master_ahead, requests, tasks>>
                /\ IF keyfs_serial >= call[w].devpi_serial
                   THEN /\ tx'[w].at_serial = keyfs_serial
                        /\ IF store[keyfs_serial].rec # NoRecord
                           THEN /\ project2time' = now
                                /\ call'[w].result =
                                     IF call[w].op = "has_project_perstage"
                                     THEN <<"has_project", TRUE>>
                                     ELSE Returned(store[keyfs_serial].rec.links)
                           ELSE /\ call'[w].result = UpstreamError
                                /\ UNCHANGED project2time
                   ELSE /\ call'[w].result = UpstreamError
                        /\ UNCHANGED <<tx, project2time>>]_vars

\* the awaited serial was applied while the call waited, and the call
\* returned the links of the record replicated at that serial
C20_Witness ==
    \E w \in Workers :
        /\ is_replica /\ BetweenCalls(w)
        /\ call[w].devpi_serial = 2 /\ tx[w].at_serial = 2
        /\ call[w].links # NoLinks
        /\ call[w].result = Returned(store[2].rec.links)
        /\ store[2].rec.links # call[w].links
        /\ project2time = now

\* the wait of a replica timed out
C20_WitnessTimeout ==
    \E w \in Workers :
        /\ is_replica /\ BetweenCalls(w)
        /\ call[w].devpi_serial > keyfs_serial
        /\ call[w].result = UpstreamError

\* the step is one of the replication thread: it applies the next commit of
\* the primary
ReplicationStep ==
    /\ master_ahead # <<>>
    /\ store' = Append(store, Head(master_ahead))
    /\ master_ahead' = Tail(master_ahead)

\* C21: on a replica no step of get_simplelinks_perstage, whether the call
\* succeeds, fails or times out, makes the transaction of the caller a write
\* transaction or leaves a change pending in it, or creates a background
\* task; the persisted state of a replica changes only by a step of the
\* replication thread.
C21_ReplicaNeverWrites ==
    /\ [](is_replica =>
            /\ \A w \in Workers : ~tx[w].write /\ tx[w].pending = NoChange
            /\ tasks = 0
            /\ background.task = "none")
    /\ [][is_replica /\ store' # store => ReplicationStep]_vars
    /\ [][\A w \in Workers :
            is_replica /\ call[w].pc \in {"fetching", "waiting"} /\ call'[w] # call[w]
            => store' = store /\ tasks' = tasks /\ ~tx'[w].write]_vars

\* a call on a replica timed out and returned the links it had read, and a
\* later call got the links the replication thread had applied
C21_Witness ==
    \E w \in Workers :
        /\ is_replica /\ requests = 2 /\ tasks = 0
        /\ Len(store) = 2
        /\ background.fetch = "running"
        /\ call[w].pc = "intx" /\ call[w].devpi_serial = 2
        /\ call[w].result = Returned(store[2].rec.links)

\* the two lists hold the same links, in whatever order
SameLinks(a, b) == {a[i] : i \in DOMAIN a} = {b[i] : i \in DOMAIN b}

C22_WitnessInFuture ==
    /\ background.task = "done" /\ Len(store) = 1
    /\ store[1].rec # NoRecord
    /\ project2time # None /\ project2time < now

\* C23: when the fetch does not end within the timeout, the call ends in
\* that step without waiting further: the retrieval timestamp is refreshed;
\* with links loaded the call returns them, with none it ends with
\* UpstreamError; on the primary exactly one background task is created,
\* which awaits the result of the fetch, and on a replica none; the
\* transaction and the store are left as they are.
C23_TimeoutServesStale ==
    [][\A w \in Workers :
        fetch_timeout(w) =>
            /\ call'[w].pc = "intx"
            /\ project2time' = now
            /\ call'[w].result =
                    IF call[w].links = NoLinks THEN UpstreamError
                    ELSE IF call[w].op = "has_project_perstage"
                    THEN <<"has_project", TRUE>>
                    ELSE Returned(call[w].links)
            /\ tasks' = tasks + (IF is_replica THEN 0 ELSE 1)
            /\ background'.task = (IF is_replica THEN "none" ELSE "awaiting")
            /\ is_replica \/ background.task # "awaiting"
            /\ UNCHANGED <<tx, store, cache_projectnames, requests>>]_vars

\* a call on the primary timed out with links loaded and returned them
C23_Witness ==
    \E w \in Workers :
        /\ ~is_replica /\ call[w].pc = "intx"
        /\ call[w].links # NoLinks /\ call[w].result = Returned(call[w].links)
        /\ call[w].serial = None
        /\ tasks = 1 /\ background.task = "awaiting" /\ background.fetch = "running"
        /\ project2time = now /\ now > 0

\* a call on the primary timed out with nothing loaded and failed
C23_WitnessNoLinks ==
    \E w \in Workers :
        /\ ~is_replica /\ call[w].pc = "intx"
        /\ call[w].links = NoLinks /\ call[w].result = UpstreamError
        /\ call[w].op = "get_simplelinks_perstage"
        /\ tasks = 1 /\ background.task = "awaiting"
        /\ project2time = now

\* the transaction reads a link record of the project
HasRecord(view) == view.rec \notin {NoRecord, ClearedRecord}

\* C24: in offline mode a call of get_simplelinks_perstage issues no
\* upstream request and ends in its step: with a persisted record it returns
\* the links of that record as they are persisted, whether or not the
\* retrieval timestamp is expired, and with none it ends with UpstreamError.
C24_OfflineVerbatim ==
    [][\A w \in Workers :
        offline /\ call_perstage(w, "get_simplelinks_perstage") =>
            /\ requests' = requests
            /\ call'[w].pc = "intx"
            /\ call'[w].result =
                    IF HasRecord(tx_view(w)) THEN Returned(tx_view(w).rec.links)
                    ELSE UpstreamError]_vars

\* the persisted links of the view whose entry holds a file
LinksWithFile(view) ==
    IF HasRecord(view)
    THEN {view.rec.links[i] : i \in DOMAIN view.rec.links} \cap view.files
    ELSE {}

\* C25: del_project on a project whose link record exists removes the
\* record, deletes the entry and the file of every persisted link whose
\* file exists, removes the project from the name-set and expires its
\* retrieval timestamp; on a project whose record does not exist it ends
\* with KeyError and changes nothing.
C25_DelProject ==
    [][\A w \in Workers :
        del_project(w) =>
            IF tx_view(w).rec # NoRecord
            THEN /\ tx_view(w)'.rec = NoRecord
                 /\ tx_view(w)'.entries = tx_view(w).entries \ LinksWithFile(tx_view(w))
                 /\ tx_view(w)'.files = tx_view(w).files \ LinksWithFile(tx_view(w))
                 /\ "pkg" \notin tx_view(w)'.names
                 /\ call'[w].result = Returned(NoLinks)
                 /\ store' = store
                 /\ project2time' = None
            ELSE /\ call'[w].result = KeyError
                 /\ UNCHANGED <<tx, store, project2time, cache_projectnames>>]_vars

\* C26: a thread in the loop of get_connection(write=True) leaves it: it
\* gets write admission, or the error is raised (within MaxCommits).  It
\* gets the connection only in a step in which no other connection holds
\* write admission, and the error is raised only while another thread holds
\* it: that step returns the thread to its caller without a connection or
\* a Writer, does not try again, and changes nothing else.
C26_BoundedWait ==
    /\ \A t \in Threads :
            pc[t] = "spin" ~>
                (pc[t] # "spin" \/ Cardinality(DOMAIN changelog) = MaxCommits)
    /\ [][\A t \in Threads :
            pc[t] \in {"idle", "spin"} /\ pc'[t] = "conn" =>
                write_lock = NoThread /\ write_lock' = t]_vars
    /\ [][\A t \in Threads :
            pc[t] = "spin" /\ pc'[t] \notin {"spin", "conn"} =>
                /\ pc'[t] = "idle"
                /\ write_lock \notin {NoThread, t}
                /\ UNCHANGED <<write_lock, kv, changelog, tx_kv, changes, commit_serial>>]_vars

\* a thread is in the loop while another thread's Writer is open
C26_Witness ==
    \E t, u \in Threads :
        /\ t # u /\ pc[t] = "spin"
        /\ write_lock = u /\ pc[u] = "open"
        /\ DOMAIN changes[u] # {}

C28_BackgroundTaskEnds ==
    (background.task = "awaiting") ~> (background.task # "awaiting")

\* C29: on the primary, whatever the interleaving of the calls of a worker
\* and of the background task, the serial of the persisted link record does
\* not decrease from one serial of the store to the next.
C29_PersistedSerialMonotone ==
    \A i \in 1 .. Len(store) - 1 :
        HasRecord(store[i]) /\ HasRecord(store[i + 1]) =>
            store[i + 1].rec.serial >= store[i].rec.serial

\* a call of get_simplelinks_perstage made now in the transaction of worker
\* w would report UpstreamNotFoundError without asking upstream
NotFoundCached(w) ==
    get_simplelinks_perstage_cached(tx_view(w)) = UpstreamNotFoundError

\* C30: get_simplelinks_perstage comes to report UpstreamNotFoundError from
\* what is cached only by a 404 of upstream: a step after which a call in an
\* open transaction would report it, and before which it would not, is the
\* step of a 404 response; no timeout and no other failure is such a step.
C30_NotFoundOnlyAfter404 ==
    [][\A w \in Workers :
        /\ call[w].pc # "notx" /\ call'[w].pc # "notx"
        /\ ~NotFoundCached(w) /\ NotFoundCached(w)'
        => fetch_not_found(w) \/ detached_fetch_not_found]_vars

\* the last call on the connection wrote the blob table
BlobWritten == io_result[1] \in {"io_file_set", "io_file_delete"} /\ io_result[3] = "ok"

\* C35: blob changes share the commit boundary of the connection: an
\* io_file_set or an io_file_delete changes the table files only as the
\* connection sees it, a rollback leaves the committed table as it was and
\* drops what the connection had changed, and
\* commit_files_without_increasing_serial makes the pending blob changes
\* durable while the changelog (and so the frontier), the typed-key index
\* and the commit notifications stay as they were.
C35_BlobCommitBoundary ==
    /\ [][BlobWritten' => files' = files]_vars
    /\ [][io_result'[1] = "rollback" => files' = files /\ tx_files' = files]_vars
    /\ [][io_result'[1] = "commit_files_without_increasing_serial" =>
            /\ files' = tx_files
            /\ UNCHANGED <<kv, changelog, notifications>>]_vars

\* C33: _save_cache_links sets the link record, and adds the project to the
\* persisted name-set, only when the new record differs from the persisted
\* one: with an equal record no key is set and the transaction holds what
\* it held; with a different one the record is set once, and the name-set
\* is set only when the project is not in it.  add_project_name sets the
\* name-set only when the project is not in it, and the project is in it
\* afterwards: called again it sets nothing.
C33_WritesOnlyOnDifference ==
    /\ [][\A w \in Workers, links \in LinkLists, serial \in {5, 7} :
            _update_simplelinks(w, links, serial) =>
                LET old == write_view(tx[w])
                    data == [serial |-> serial, links |-> links]
                IN  IF old.rec = data
                    THEN /\ key_sets' = <<>>
                         /\ tx_view(w)'.rec = old.rec /\ tx_view(w)'.names = old.names
                    ELSE /\ key_sets' \in {<<"projsimplelinks">>,
                                           <<"projsimplelinks", "projects">>}
                         /\ (Len(key_sets') = 2) = ("pkg" \notin old.names)
                         /\ tx_view(w)'.rec = data
                         /\ tx_view(w)'.names = old.names \cup {"pkg"}]_vars
    /\ [][\A w \in Workers :
            call_add_project_name(w) =>
                /\ key_sets' = (IF "pkg" \in tx_view(w).names THEN <<>> ELSE <<"projects">>)
                /\ tx_view(w)'.names = tx_view(w).names \cup {"pkg"}
                /\ tx_view(w)'.rec = tx_view(w).rec]_vars

\* the record of a response equal to the persisted one was saved in a write
\* transaction that had written the name-set: no key was set
C33_Witness ==
    \E w \in Workers :
        /\ call[w].op = "_update_simplelinks" /\ call[w].pc = "intx"
        /\ key_sets = <<>>
        /\ store[tx[w].at_serial].rec = [serial |-> call[w].serial, links |-> call[w].result[2]]

\* a different record was saved for a project that is in the name-set: the
\* record was set and the name-set was not
C33_WitnessNameOnce ==
    \E w \in Workers :
        /\ call[w].op = "_update_simplelinks" /\ call[w].pc = "intx"
        /\ key_sets = <<"projsimplelinks">>
        /\ "pkg" \in store[tx[w].at_serial].names

\* C31: when threads call ProjectNamesCache.add with different names at the
\* same time, each add being a read of the set followed by a store of the
\* new set, every name whose add has returned is in the set once no call is
\* under way.
C31_NoLostAdd ==
    (\A t \in Threads : adding[t].pc = "idle") =>
        \A t \in Threads : adding[t].added \subseteq cache_projectnames

\* C32: whatever operations are called on the two caches, the value of
\* ProjectUpdateCache.get_timestamp(project) never decreases, the timestamp
\* of ProjectNamesCache never decreases, and the name-set of
\* ProjectNamesCache loses a name only in a step of set(data).
C32_CachesMonotone ==
    /\ [][get_timestamp' >= get_timestamp]_vars
    /\ [][names_timestamp' >= names_timestamp]_vars
    /\ [][(\E data \in SUBSET CachedProjects : names_set(data))
            \/ cache_projectnames \subseteq cache_projectnames']_vars

\* the names cache was never set, or was marked current cache_expiry ago
\* or longer
NamesCacheExpired ==
    names_timestamp = -1 \/ now - names_timestamp >= cache_expiry

\* C34: list_projects_perstage returns the persisted name-set without an
\* upstream request in offline mode, and the names cache without an
\* upstream request while the cache is not expired; otherwise it asks
\* upstream once: on an UpstreamError it returns the persisted name-set and
\* leaves the names cache and its timestamp unchanged; on a listing equal
\* to the cache that was set before it only marks the cache current; on any
\* other listing it replaces the cache and marks it current; in both cases
\* it returns the listing.
C34_ListProjects ==
    [][\A w \in Workers, ok \in BOOLEAN, projects \in SUBSET CachedProjects :
        list_projects_perstage(w, ok, projects) =>
            LET persisted == tx_view(w).names
                returns(result) == call'[w].result = <<"projects", result>>
            IN  /\ call'[w].pc = "intx"
                /\ offline =>
                        /\ returns(persisted) /\ requests' = requests
                        /\ UNCHANGED <<cache_projectnames, names_timestamp, tx>>
                /\ ~offline /\ ~NamesCacheExpired =>
                        /\ returns(cache_projectnames) /\ requests' = requests
                        /\ UNCHANGED <<cache_projectnames, names_timestamp, tx>>
                /\ ~offline /\ NamesCacheExpired =>
                        /\ requests' = requests + 1
                        /\ ~ok =>
                                /\ returns(persisted)
                                /\ UNCHANGED <<cache_projectnames, names_timestamp, tx>>
                        /\ ok /\ names_timestamp # -1 /\ cache_projectnames = projects =>
                                /\ returns(projects)
                                /\ names_timestamp' = now
                                /\ UNCHANGED <<cache_projectnames, tx>>
                        /\ ok /\ (names_timestamp = -1 \/ cache_projectnames # projects) =>
                                /\ returns(projects)
                                /\ names_timestamp' = now
                                /\ cache_projectnames' = projects]_vars

\* upstream failed on a store that holds the project: the call returned the
\* persisted name-set, and the names cache was not set
C34_Witness ==
    \E w \in Workers :
        /\ ~offline /\ call[w].op = "list_projects_perstage"
        /\ call[w].result = <<"projects", {"pkg"}>>
        /\ requests = 1 /\ names_timestamp = -1

\* a listing that differs from the expired cache replaced it
C34_WitnessReplaced ==
    \E w \in Workers :
        /\ ~offline /\ call[w].op = "list_projects_perstage"
        /\ call[w].result = <<"projects", {"p2"}>>
        /\ requests = 2 /\ cache_projectnames = {"p2"} /\ names_timestamp = now

\* a listing equal to the expired cache marked it current
C34_WitnessMarkedCurrent ==
    \E w \in Workers :
        /\ call[w].op = "list_projects_perstage"
        /\ call[w].result = <<"projects", {"pkg"}>>
        /\ requests = 2 /\ cache_projectnames = {"pkg"} /\ names_timestamp = now
        /\ now >= cache_expiry /\ key_sets = <<>> /\ ~is_replica

\* offline, the persisted name-set was returned and upstream was not asked
C34_WitnessOffline ==
    \E w \in Workers :
        /\ offline /\ call[w].op = "list_projects_perstage"
        /\ call[w].result = <<"projects", {"pkg"}>>
        /\ requests = 0

====
